---- MODULE Spec2Model ----
(***************************************************************************)
(* Fixed-step RK4 integrator (functions_cMyBPC.odeRK4) and the retry       *)
(* controller wrapped around it (simulations.run_simulation, repeated      *)
(* verbatim in demo_simulation.run_simulation).                            *)
(*                                                                         *)
(* Units.  Time is counted in ticks of 0.01 time units, the finest step    *)
(* size the controller uses, so h = 1, 0.1, 0.01 are 100, 10, 1 ticks.     *)
(* Concentrations are counted in units of 1/600, and the derivative        *)
(* functions return rates that are multiples of 600 units per time unit,   *)
(* so that k*stepsize, k/2 and (k1+2k2+2k3+k4)/6 are exact integers for    *)
(* every step size: the model computes the RK4 arithmetic exactly.         *)
(*                                                                         *)
(* Spec is run_simulation with the integrator stepping inside it.          *)
(* SpecLib is one call of a library function on its own: fromIntv,         *)
(* sig2array, pulses_decaying and fraction of functions_cMyBPC, and the    *)
(* seven model functions of models_cMyBPC, computed with exact quotients   *)
(* on plain numbers.                                                       *)
(* SpecCmp is the retry ladder as the cells of model_comparisons write it  *)
(* out around their calls of odeRK4.                                       *)
(***************************************************************************)
EXTENDS Integers, Sequences, FiniteSets, TLC

\* Python's None: for naFun (a function name) and for naFunParams (a list)
None == "None"
NoneParams == [isNone |-> TRUE, intv |-> <<>>]
Intervals(intv) == [isNone |-> FALSE, intv |-> intv]

(* ---------------------------- bounds ----------------------------------- *)

\* largest t_end (in whole time units) the caller passes
MaxTEnd == 1

(* ------------------------ program constants ---------------------------- *)

H001 == 1
H01 == 10 * H001
OneTimeUnit == 10 * H01

\* the negative-value retry at h=0.1 run at the step size of the finest tier
RetryStepFinestFirst(tr) ==
    CASE tr = "neg01"  -> H001
      [] tr = "neg001" -> H001
      [] tr = "rw01"   -> H01
      [] tr = "rw001"  -> H001

\* the second negative-value retry not refined: h=0.1 again
RetryStepNotRefined(tr) ==
    CASE tr = "neg01"  -> H01
      [] tr = "neg001" -> H01
      [] tr = "rw01"   -> H01
      [] tr = "rw001"  -> H001

\* step size of each retry call site
RetryStep(tr) ==
    CASE tr = "neg01"  -> H01
      [] tr = "neg001" -> H001
      [] tr = "rw01"   -> H01
      [] tr = "rw001"  -> H001

\* the stride of the h=0.1 tier applied to the h=0.01 tier as well
StrideWrongTier(tr) ==
    CASE tr = "neg01"  -> 10
      [] tr = "neg001" -> 10
      [] tr = "rw01"   -> 10
      [] tr = "rw001"  -> 10

\* column stride applied to the result of each retry call site
Stride(tr) ==
    CASE tr = "neg01"  -> 10
      [] tr = "neg001" -> 100
      [] tr = "rw01"   -> 10
      [] tr = "rw001"  -> 100

(* ------------------------------ inputs --------------------------------- *)

TEnds == {n * OneTimeUnit : n \in 1..MaxTEnd}

\* initial conditions <<S, P>>, nonnegative
InitialConditions == {<<150, 0>>, <<180, 0>>, <<300, 0>>, <<600, 0>>}

\* interval lists handed to fromIntv
IntervalLists == {Intervals(<<0, 2 * OneTimeUnit>>)}

\* Derivative functions handed to run_simulation as its argument model.  The
\* controller and the integrator treat the function as a black box, so the
\* inputs are small stand-ins for the repository's networks: two species
\* S -> P, a saturated (zero-order) forward flux gated by the signal and a
\* restoring flux for S < 0 (the sign a Michaelis-Menten rate takes for a
\* negative substrate); the two fluxes cancel in the sum, so mass is
\* conserved.  nargs is the number of arguments the function takes: 3 like
\* cMyBPC_model1..4, 5 like cMyBPC_model_final.
Models == {[name |-> "autonomous", nargs |-> 3],
           [name |-> "nonautonomous", nargs |-> 5]}

\* Parameter sets: c the forward rate for S > 0, d the restoring rate for
\* S < 0, rwBelow/rwAt the states at which the rate law overflows or divides
\* by zero (numpy RuntimeWarning, raised because of filterwarnings("error")),
\* errAt the states at which it raises another exception.
P(c, d, rwBelow, rwAt, errAt) ==
    [c |-> c, d |-> d, rwBelow |-> rwBelow, rwAt |-> rwAt, errAt |-> errAt]

ParamSets ==
    { P(1200, 0, {}, {}, {-300}),
      P(1200, 0, {-300}, {}, {-30}),
      P(1200, 0, {}, {0}, {}),
      P(1200, 0, {}, {0}, {6}),
      P(600, 0, {-30}, {}, {-30}),
      P(600, 0, {}, {0}, {60}),
      P(600, 0, {}, {-30}, {}),
      P(600, 600, {-30}, {}, {}),
      P(600, 1200, {}, {-30}, {}),
      P(1200, 0, {}, {-60}, {}),
      P(1200, 600, {}, {0}, {-30}) }

(* ------------------------------ state ---------------------------------- *)

VARIABLES
    model, ICs, params, t0, t_end, h, naFun, naFunParams, noisyS,
    pc, tier, output, exc,
    stepsize, steps, i, x, t, evals,
    calls, notices,
    probe, ladder

args == <<model, ICs, params, t0, t_end, h, naFun, naFunParams, noisyS, ladder>>
odeLocals == <<stepsize, steps, i, x, t, evals>>
vars == <<model, ICs, params, t0, t_end, h, naFun, naFunParams, noisyS,
          pc, tier, output, exc, stepsize, steps, i, x, t, evals, calls, notices,
          probe, ladder>>

(* --------------------------- pure helpers ------------------------------ *)

Ok(v) == [exc |-> "none", val |-> v]
Raised(e) == [exc |-> e, val |-> <<>>]

\* a call of one of the library functions outside run_simulation: the
\* function, its arguments, and its result once it has returned
Call(f, a) == [fn |-> f, done |-> FALSE, in |-> a, res |-> <<>>]
Return(c, r) == [fn |-> c.fn, done |-> TRUE, in |-> c.in, res |-> r]
NoProbe == Call("none", <<>>)

\* the interval test with the stop time excluded
RECURSIVE fromIntvFromHalfOpen(_, _, _)
fromIntvFromHalfOpen(tt, intv, j) ==
    IF j + 1 > Len(intv) THEN 0
    ELSE IF tt >= intv[j] /\ tt < intv[j + 1] THEN 1
    ELSE fromIntvFromHalfOpen(tt, intv, j + 2)

\* functions_cMyBPC.fromIntv, intv a list of (start, stop) pairs
RECURSIVE fromIntvFrom(_, _, _)
fromIntvFrom(tt, intv, j) ==
    IF j + 1 > Len(intv) THEN 0
    ELSE IF tt >= intv[j] /\ tt <= intv[j + 1] THEN 1
    ELSE fromIntvFrom(tt, intv, j + 2)

fromIntv(tt, intv) == fromIntvFrom(tt, intv, 1)

\* the inner loop with s overwritten by every pair, so that the last pair
\* decides
RECURSIVE sig2arrayPairsLastPair(_, _, _, _)
sig2arrayPairsLastPair(tt, sig, j, s) ==
    IF j + 1 > Len(sig) THEN s
    ELSE sig2arrayPairsLastPair(tt, sig, j + 2,
             IF tt >= sig[j] /\ tt <= sig[j + 1] THEN 1 ELSE 0)

\* the inner loop of functions_cMyBPC.sig2array: s starts at 0 and is set to
\* 1 by every pair that contains tt
RECURSIVE sig2arrayPairs(_, _, _, _)
sig2arrayPairs(tt, sig, j, s) ==
    IF j + 1 > Len(sig) THEN s
    ELSE sig2arrayPairs(tt, sig, j + 2,
             IF tt >= sig[j] /\ tt <= sig[j + 1] THEN 1 ELSE s)

\* functions_cMyBPC.sig2array: int(t/sz) entries, entry i sampled at i*sz
\* (t >= 0, sz >= 0; a step of 0 divides by zero)
sig2array(sig, tt, sz) ==
    IF sz = 0 THEN Raised("ZeroDivisionError")
    ELSE Ok([n \in 1..(tt \div sz) |-> sig2arrayPairs((n - 1) * sz, sig, 1, 0)])

\* a number, and numpy.exp of a number kept as a term, exp(0) being the
\* number 1
Num(n) == [fn |-> "id", arg |-> n]
Exp(a) == IF a = 0 THEN Num(1) ELSE [fn |-> "exp", arg |-> a]

\* the loop, left at the first pair that has started
RECURSIVE pulses_decayingFirstPair(_, _, _, _, _)
pulses_decayingFirstPair(tt, intv, k, j, xx) ==
    IF j + 1 > Len(intv) THEN xx
    ELSE IF tt >= intv[j]
    THEN IF tt < intv[j + 1] THEN Num(1) ELSE Exp(k * (tt - intv[j + 1]))
    ELSE pulses_decayingFirstPair(tt, intv, k, j + 2, xx)

\* functions_cMyBPC.pulses_decaying: the loop from pair j on, xx the value
\* of x so far
RECURSIVE pulses_decayingFrom(_, _, _, _, _)
pulses_decayingFrom(tt, intv, k, j, xx) ==
    IF j + 1 > Len(intv) THEN xx
    ELSE pulses_decayingFrom(tt, intv, k, j + 2,
             IF tt >= intv[j]
             THEN IF tt < intv[j + 1] THEN Num(1)
                  ELSE Exp(k * (tt - intv[j + 1]))
             ELSE xx)

\* "intv, k = p"
pulses_decaying(tt, p) == pulses_decayingFrom(tt, p[1], p[2], 1, Num(0))

\* naFun(t, naFunParams) as the five-argument models call it
CallNaFun(nf, tt, nfp) ==
    IF nf = None \/ nfp.isNone THEN Raised("TypeError")
    ELSE Ok(fromIntv(tt, nfp.intv))

\* the rate law of the derivative function
RateLaw(xx, p, sig) ==
    LET S == xx[1]
    IN  IF \E b \in p.rwBelow : S < b THEN Raised("RuntimeWarning")
        ELSE IF S \in p.rwAt THEN Raised("RuntimeWarning")
        ELSE IF S \in p.errAt THEN Raised("ZeroDivisionError")
        ELSE LET v == IF S > 0 THEN p.c * sig
                      ELSE IF S < 0 THEN 0 - p.d
                      ELSE 0
             IN  Ok(<<0 - v, v>>)

\* fun(t, x, p) or fun(t, x, p, naFun, naFunParams): nargsPassed is the
\* number of arguments odeRK4 passes
fun(m, tt, xx, p, nf, nfp, nargsPassed) ==
    IF m.nargs # nargsPassed THEN Raised("TypeError")
    ELSE IF nargsPassed = 3 THEN RateLaw(xx, p, 1)
    ELSE LET s == CallNaFun(nf, tt, nfp)
         IN  IF s.exc # "none" THEN s ELSE RateLaw(xx, p, s.val)

RECURSIVE SeqSum(_)
SeqSum(v) == IF Len(v) = 0 THEN 0 ELSE v[1] + SeqSum(Tail(v))

VAdd(a, b) == [j \in DOMAIN a |-> a[j] + b[j]]
VHalf(a) == [j \in DOMAIN a |-> a[j] \div 2]
\* fun(...)*stepsize, stepsize in ticks
VTimesStep(a, hh) == [j \in DOMAIN a |-> (a[j] * hh) \div OneTimeUnit]

\* the dispatch made on the signal parameters instead of the signal function
BranchOnParams(nf, nfp) ==
    IF nfp.isNone THEN "autonomous" ELSE "nonautonomous"

\* a dispatch whose last branch steps the autonomous system
BranchElseAutonomous(nf, nfp) ==
    IF nf = None THEN "autonomous" ELSE "nonautonomous"

\* which stepping branch of odeRK4 runs
Branch(nf, nfp) ==
    IF nf = None /\ nfp.isNone THEN "autonomous"
    ELSE IF nf # None THEN "nonautonomous"
    ELSE "neither"

\* one evaluation of fun by the stepping loop: its arguments and result
Eval(m, tt, xx, p, nf, nfp, n) ==
    [t |-> tt, x |-> xx, nargs |-> n, res |-> fun(m, tt, xx, p, nf, nfp, n)]

\* the stepping loop with the classical stage times t, t+h/2, t+h/2, t+h
RK4EvalsStageTimes(m, tprev, xprev, p, hh, nf, nfp) ==
    LET n == IF Branch(nf, nfp) = "autonomous" THEN 3 ELSE 5
        e1 == Eval(m, tprev, xprev, p, nf, nfp, n)
    IN  IF e1.res.exc # "none" THEN <<e1>> ELSE
        LET k1 == VTimesStep(e1.res.val, hh)
            e2 == Eval(m, tprev + hh \div 2, VAdd(xprev, VHalf(k1)), p, nf, nfp, n)
        IN  IF e2.res.exc # "none" THEN <<e1, e2>> ELSE
            LET k2 == VTimesStep(e2.res.val, hh)
                e3 == Eval(m, tprev + hh \div 2, VAdd(xprev, VHalf(k2)), p, nf, nfp, n)
            IN  IF e3.res.exc # "none" THEN <<e1, e2, e3>> ELSE
                LET k3 == VTimesStep(e3.res.val, hh)
                    e4 == Eval(m, tprev + hh, VAdd(xprev, k3), p, nf, nfp, n)
                IN  <<e1, e2, e3, e4>>

\* the evaluations of fun in one iteration of the stepping loop, in the
\* order they are made, up to and including the first one that raises
RK4Evals(m, tprev, xprev, p, hh, nf, nfp) ==
    LET n == IF Branch(nf, nfp) = "autonomous" THEN 3 ELSE 5
        e1 == Eval(m, tprev, xprev, p, nf, nfp, n)
    IN  IF e1.res.exc # "none" THEN <<e1>> ELSE
        LET k1 == VTimesStep(e1.res.val, hh)
            e2 == Eval(m, tprev, VAdd(xprev, VHalf(k1)), p, nf, nfp, n)
        IN  IF e2.res.exc # "none" THEN <<e1, e2>> ELSE
            LET k2 == VTimesStep(e2.res.val, hh)
                e3 == Eval(m, tprev, VAdd(xprev, VHalf(k2)), p, nf, nfp, n)
            IN  IF e3.res.exc # "none" THEN <<e1, e2, e3>> ELSE
                LET k3 == VTimesStep(e3.res.val, hh)
                    e4 == Eval(m, tprev, VAdd(xprev, k3), p, nf, nfp, n)
                IN  <<e1, e2, e3, e4>>

\* one iteration of the stepping loop: the four evaluations and x_next
RK4(m, tprev, xprev, p, hh, nf, nfp) ==
    LET ev == RK4Evals(m, tprev, xprev, p, hh, nf, nfp)
        last == ev[Len(ev)].res
    IN  IF last.exc # "none" THEN last ELSE
        LET k1 == VTimesStep(ev[1].res.val, hh)
            k2 == VTimesStep(ev[2].res.val, hh)
            k3 == VTimesStep(ev[3].res.val, hh)
            k4 == VTimesStep(ev[4].res.val, hh)
        IN  Ok([j \in DOMAIN xprev |->
                  xprev[j] + (k1[j] + 2 * k2[j] + 2 * k3[j] + k4[j]) \div 6])

\* x.T : time-major rows to state-major rows
Transpose(xx, nrows) ==
    [r \in 1..nrows |-> [c \in 1..Len(xx) |-> xx[c][r]]]

\* np.zeros([steps, len(ICs)]) with x[0,:] = ICs
InitialRows(ics, n) ==
    [j \in 1..n |-> IF j = 1 THEN ics ELSE [r \in DOMAIN ics |-> 0]]

\* odeRK4 as a function of its arguments: the trajectory it returns, or the
\* exception that leaves it.  a is the record of the arguments.
RECURSIVE OdeRK4From(_, _, _)
OdeRK4From(a, xs, j) ==
    IF Branch(a.naFun, a.naFunParams) = "neither" \/ j >= Len(xs)
    THEN Ok(Transpose(xs, Len(a.ICs)))
    ELSE LET r == RK4(a.fun, a.t_0 + (j - 1) * a.stepsize, xs[j], a.p,
                      a.stepsize, a.naFun, a.naFunParams)
         IN  IF r.exc # "none" THEN r
             ELSE OdeRK4From(a, [xs EXCEPT ![j + 1] = r.val], j + 1)

OdeRK4(a) == OdeRK4From(a, InitialRows(a.ICs, a.t_end \div a.stepsize), 1)

\* no column dropped
SliceEveryColumn(out, k) == out

\* out[:, 1::k]
SliceFromSecondColumn(out, k) ==
    [r \in DOMAIN out |->
        [c \in 1..((Len(out[r]) + k - 2) \div k) |-> out[r][(c - 1) * k + 2]]]

\* out[:, ::k]
Slice(out, k) ==
    [r \in DOMAIN out |->
        [c \in 1..((Len(out[r]) + k - 1) \div k) |-> out[r][(c - 1) * k + 1]]]

\* output[np.where(output<0)].shape[0] > 0
HasNeg(out) == \E r \in DOMAIN out : \E c \in DOMAIN out[r] : out[r][c] < 0

NRows(out) == Len(out)
NCols(out) == IF Len(out) = 0 THEN 0 ELSE Len(out[1])

NoticeNeg01 ==
    "Numerical issue occured: negative values\n retrying with reduced stepsize: 0.1"
NoticeNeg001 ==
    "Numerical issue occured: negative values\n retrying with reduced stepsize: 0.01"
NoticeSucceeded == "succeeded!"
NoticeRw01 ==
    "Numerical issue occured: runtime warning\n retrying with reduced stepsize: 0.1"
NoticeRw001 ==
    "Numerical issue occured: runtime warning\n retrying with reduced stepsize: 0.01"

(* ------------------------- functions_cMyBPC.fraction ------------------- *)

\* the rows (counted from 0) an if/elif chain of fraction sums, or no
\* binding of f when no branch matches
Rows(rs) == [bound |-> TRUE, rows |-> rs]
Unbound == [bound |-> FALSE, rows |-> <<>>]

\* the chain of the eight-species models
FractionRowsBelow4(species) ==
    CASE species = "0P" -> Rows(<<0>>)
      [] species = "1P" -> Rows(<<1, 4>>)
      [] species = "2P" -> Rows(<<2, 5>>)
      [] species = "3P" -> Rows(<<3, 6>>)
      [] species = "4P" -> Rows(<<7>>)
      [] OTHER -> Unbound

\* the chain of the nine-species models
FractionRowsFrom4(species) ==
    CASE species = "0P" -> Rows(<<0>>)
      [] species = "1P" -> Rows(<<1, 2, 5>>)
      [] species = "2P" -> Rows(<<3, 6>>)
      [] species = "3P" -> Rows(<<4, 7>>)
      [] species = "4P" -> Rows(<<8>>)
      [] OTHER -> Unbound

\* the nine-species models read through the chain of the eight-species ones
FractionRowsOneChain(species, md) == FractionRowsBelow4(species)

\* "if model < 4: ... if model >= 4: ..."
FractionRows(species, md) ==
    IF md < 4 THEN FractionRowsBelow4(species) ELSE FractionRowsFrom4(species)

\* np.sum(x,0) at column c (counted from 1) of the state-major array xx
ColumnTotal(xx, c) == SeqSum([r \in 1..Len(xx) |-> xx[r][c]])

\* fraction(x, species, model): a quotient is kept as numerator and
\* denominator; filter is the warnings filter in force, under "error" the
\* division by a zero total raises numpy's RuntimeWarning
fraction(xx, species, md, filter) ==
    LET sel == FractionRows(species, md)
        cols == IF Len(xx) = 0 THEN 0 ELSE Len(xx[1])
    IN  IF sel.bound /\ \E j \in DOMAIN sel.rows : sel.rows[j] >= Len(xx)
        THEN Raised("IndexError")
        ELSE IF sel.bound /\ filter = "error"
                          /\ \E c \in 1..cols : ColumnTotal(xx, c) = 0
        THEN Raised("RuntimeWarning")
        ELSE IF ~sel.bound THEN Raised("UnboundLocalError")
        ELSE Ok([c \in 1..cols |->
                   [num |-> SeqSum([j \in DOMAIN sel.rows |->
                                       xx[sel.rows[j] + 1][c]]),
                    den |-> ColumnTotal(xx, c)]])

(* ------------------------- models_cMyBPC: networks ---------------------- *)

\* exact quotients: [n, d] in lowest terms, d > 0
RECURSIVE GCD(_, _)
GCD(a, b) == IF b = 0 THEN a ELSE GCD(b, a % b)
Abs(a) == IF a < 0 THEN 0 - a ELSE a
Rat(n, d) ==
    LET g == GCD(Abs(n), Abs(d))
        sgn == IF d < 0 THEN 0 - 1 ELSE 1
    IN  [n |-> (sgn * n) \div g, d |-> (sgn * d) \div g]
RInt(a) == [n |-> a, d |-> 1]
RAdd(a, b) == Rat(a.n * b.d + b.n * a.d, a.d * b.d)
RSub(a, b) == Rat(a.n * b.d - b.n * a.d, a.d * b.d)
RMul(a, b) == Rat(a.n * b.n, a.d * b.d)
RDiv(a, b) == Rat(a.n * b.d, a.d * b.n)
RECURSIVE RSum(_)
RSum(v) == IF Len(v) = 0 THEN RInt(0) ELSE RAdd(v[1], RSum(Tail(v)))

\* "P0,A,Atr,AB,ABG,D,AD,ABD,ABGD = ICs" and, in the functions without the
\* species Atr, "P0,A,AB,ABG,D,AD,ABD,ABGD = ICs"
SpeciesNames == <<"P0", "A", "Atr", "AB", "ABG", "D", "AD", "ABD", "ABGD">>
SpeciesNames8 == <<"P0", "A", "AB", "ABG", "D", "AD", "ABD", "ABGD">>
UnpackAs(names, ics) ==
    [sp \in {names[j] : j \in DOMAIN names} |->
        ics[CHOOSE j \in DOMAIN names : names[j] = sp]]

\* references to k[n], K[n] (n counted from 0) and to the entries of
\* params[2]: "k2_fast, K2_fast, k_isoF, k_isoR, k3_fast, K3_fast",
\* "r2_actF, r2_Ka" in cMyBPC_model2, "lambda_r2, kcat_A, Ka" in cMyBPC_model3
kRef(n) == [arr |-> "k", idx |-> n]
KRef(n) == [arr |-> "K", idx |-> n]
k2_fast == [arr |-> "extra", idx |-> 0]
K2_fast == [arr |-> "extra", idx |-> 1]
k_isoF == [arr |-> "extra", idx |-> 2]
k_isoR == [arr |-> "extra", idx |-> 3]
k3_fast == [arr |-> "extra", idx |-> 4]
K3_fast == [arr |-> "extra", idx |-> 5]
r2_actF == [arr |-> "extra", idx |-> 0]
r2_Ka == [arr |-> "extra", idx |-> 1]
lambda_r2 == [arr |-> "extra", idx |-> 0]
kcat_A == [arr |-> "extra", idx |-> 1]
Ka == [arr |-> "extra", idx |-> 2]

\* one summand "(S1+S2)/K" of a competition term
Term(subs, Kr) == [subs |-> subs, K |-> Kr]

\* a rate law that takes the Michaelis constant of the entry before
MMPreviousK(n, name, kr, enz, sub, Kr, kap, own, ownK, add) ==
    [num |-> n, name |-> name, form |-> "mm", k |-> kr, enz |-> enz,
     sub |-> sub,
     K |-> [arr |-> Kr.arr, idx |-> IF Kr.idx > 0 THEN Kr.idx - 1 ELSE 0],
     kappa |-> kap, own |-> own,
     ownK |-> [arr |-> ownK.arr, idx |-> IF ownK.idx > 0 THEN ownK.idx - 1 ELSE 0],
     add |-> add]

\* a rate law as the source writes it, n the number in the name "v<n>" or
\* "v<n>_2" (0 for the other names):
\* "v = k*E*S/(K*(1+K_kap-own/ownK)+add)"
MM(n, name, kr, enz, sub, Kr, kap, own, ownK, add) ==
    [num |-> n, name |-> name, form |-> "mm", k |-> kr, enz |-> enz,
     sub |-> sub, K |-> Kr, kappa |-> kap, own |-> own, ownK |-> ownK,
     add |-> add]
\* "v2 = (k*E*S+kcat_A*E*S*(AD+AB)/(lambda_r2*Ka))/((K + (AD+AB)*K/Ka
\*       + S*(AD+AB)/(lambda_r2*Ka)+K*(K_kap-(own/ownK))+add))"
Allo(n, name, kr, enz, sub, Kr, kap, own, ownK, add) ==
    [num |-> n, name |-> name, form |-> "allo", k |-> kr, enz |-> enz,
     sub |-> sub, K |-> Kr, kappa |-> kap, own |-> own, ownK |-> ownK,
     add |-> add]
\* "v = k*RSK2*S/(K+O/Kother+add)"
Rsk(n, name, kr, sub, Kr, other, Kother, add) ==
    [num |-> n, name |-> name, form |-> "rsk", k |-> kr, enz |-> "RSK2",
     sub |-> sub, K |-> Kr, kappa |-> "none", own |-> other, ownK |-> Kother,
     add |-> add]
\* "v = k*S"
Iso(name, kr, sub) ==
    [num |-> 0, name |-> name, form |-> "iso", k |-> kr, enz |-> "none",
     sub |-> sub, K |-> kr, kappa |-> "none", own |-> sub, ownK |-> kr,
     add |-> sub]

\* every rate of a derivative counted as production
OdeAllProduced(plus, minus) == [plus |-> plus \o minus, minus |-> <<>>]

\* "dXdt = +... -..."
Ode(plus, minus) == [plus |-> plus, minus |-> minus]

\* cMyBPC_model1
Net_model1 ==
    [ name |-> "cMyBPC_model1",
      species |-> SpeciesNames8,
      nargs |-> 3,
      nextra |-> 0,
      enzymes |-> <<"PKA", "PKC", "PP1", "PP2A">>,
      rsk2 |-> FALSE,
      signal |-> FALSE,
      activated |-> FALSE,
      kappa |->
        [ PKA |-> << Term(<<"P0">>, KRef(0)), Term(<<"A">>, KRef(3)),
                   Term(<<"AB">>, KRef(6)), Term(<<"D">>, KRef(21)),
                   Term(<<"AD">>, KRef(24)), Term(<<"ABD">>, KRef(27)) >>,
          PKC |-> << Term(<<"P0">>, KRef(9)), Term(<<"A">>, KRef(12)),
                   Term(<<"AB">>, KRef(15)), Term(<<"ABG">>, KRef(18)) >>,
          PP1 |-> << Term(<<"A">>, KRef(1)), Term(<<"AB">>, KRef(4)),
                   Term(<<"ABG">>, KRef(7)), Term(<<"D">>, KRef(10)),
                   Term(<<"AD">>, KRef(13)), Term(<<"AD">>, KRef(22)),
                   Term(<<"ABD">>, KRef(16)), Term(<<"ABD">>, KRef(25)),
                   Term(<<"ABGD">>, KRef(19)), Term(<<"ABGD">>, KRef(28)) >>,
          PP2A |-> << Term(<<"A">>, KRef(2)), Term(<<"AB">>, KRef(5)),
                   Term(<<"ABG">>, KRef(8)), Term(<<"D">>, KRef(11)),
                   Term(<<"AD">>, KRef(14)), Term(<<"AD">>, KRef(23)),
                   Term(<<"ABD">>, KRef(17)), Term(<<"ABD">>, KRef(26)),
                   Term(<<"ABGD">>, KRef(20)), Term(<<"ABGD">>, KRef(29)) >> ],
      fluxes |->
        << MM(1, "v1", kRef(0), "PKA", "P0", KRef(0), "PKA", "P0", KRef(0), "P0"),
           MM(4, "v4", kRef(3), "PKA", "A", KRef(3), "PKA", "A", KRef(3), "A"),
           MM(7, "v7", kRef(6), "PKA", "AB", KRef(6), "PKA", "AB", KRef(6), "AB"),
           MM(22, "v22", kRef(21), "PKA", "D", KRef(21), "PKA", "D", KRef(21), "D"),
           MM(25, "v25", kRef(24), "PKA", "AD", KRef(24), "PKA", "AD", KRef(24), "AD"),
           MM(28, "v28", kRef(27), "PKA", "ABD", KRef(27), "PKA", "ABD", KRef(27), "ABD"),
           MM(10, "v10", kRef(9), "PKC", "P0", KRef(9), "PKC", "P0", KRef(9), "P0"),
           MM(13, "v13", kRef(12), "PKC", "A", KRef(12), "PKC", "A", KRef(12), "A"),
           MM(16, "v16", kRef(15), "PKC", "AB", KRef(15), "PKC", "AB", KRef(15), "AB"),
           MM(19, "v19", kRef(18), "PKC", "ABG", KRef(18), "PKC", "ABG", KRef(18), "ABG"),
           MM(2, "v2", kRef(1), "PP1", "A", KRef(1), "PP1", "A", KRef(1), "A"),
           MM(5, "v5", kRef(4), "PP1", "AB", KRef(4), "PP1", "AB", KRef(4), "AB"),
           MM(8, "v8", kRef(7), "PP1", "ABG", KRef(7), "PP1", "ABG", KRef(7), "ABG"),
           MM(11, "v11", kRef(10), "PP1", "D", KRef(10), "PP1", "D", KRef(10), "D"),
           MM(14, "v14", kRef(13), "PP1", "AD", KRef(13), "PP1", "AD", KRef(13), "AD"),
           MM(17, "v17", kRef(16), "PP1", "ABD", KRef(16), "PP1", "ABD", KRef(16), "ABD"),
           MM(20, "v20", kRef(19), "PP1", "ABGD", KRef(19), "PP1", "ABGD", KRef(19), "ABGD"),
           MM(23, "v23", kRef(22), "PP1", "AD", KRef(22), "PP1", "AD", KRef(22), "AD"),
           MM(26, "v26", kRef(25), "PP1", "ABD", KRef(25), "PP1", "ABD", KRef(25), "ABD"),
           MM(29, "v29", kRef(28), "PP1", "ABGD", KRef(28), "PP1", "ABGD", KRef(28), "ABGD"),
           MM(3, "v3", kRef(2), "PP2A", "A", KRef(2), "PP2A", "A", KRef(2), "A"),
           MM(6, "v6", kRef(5), "PP2A", "AB", KRef(5), "PP2A", "AB", KRef(5), "AB"),
           MM(9, "v9", kRef(8), "PP2A", "ABG", KRef(8), "PP2A", "ABG", KRef(8), "ABG"),
           MM(12, "v12", kRef(11), "PP2A", "D", KRef(11), "PP2A", "D", KRef(11), "D"),
           MM(15, "v15", kRef(14), "PP2A", "AD", KRef(14), "PP2A", "AD", KRef(14), "AD"),
           MM(18, "v18", kRef(17), "PP2A", "ABD", KRef(17), "PP2A", "ABD", KRef(17), "ABD"),
           MM(21, "v21", kRef(20), "PP2A", "ABGD", KRef(20), "PP2A", "ABGD", KRef(20), "ABGD"),
           MM(24, "v24", kRef(23), "PP2A", "AD", KRef(23), "PP2A", "AD", KRef(23), "AD"),
           MM(27, "v27", kRef(26), "PP2A", "ABD", KRef(26), "PP2A", "ABD", KRef(26), "ABD"),
           MM(30, "v30", kRef(29), "PP2A", "ABGD", KRef(29), "PP2A", "ABGD", KRef(29), "ABGD") >>,
      odes |->
        << Ode(<<"v2", "v3", "v11", "v12">>,
               <<"v1", "v10">>),
           Ode(<<"v1", "v5", "v6", "v14", "v15">>,
               <<"v2", "v3", "v4", "v13">>),
           Ode(<<"v4", "v8", "v9", "v17", "v18">>,
               <<"v5", "v6", "v7", "v16">>),
           Ode(<<"v7", "v20", "v21">>,
               <<"v8", "v9", "v19">>),
           Ode(<<"v10", "v23", "v24">>,
               <<"v11", "v12", "v22">>),
           Ode(<<"v13", "v22", "v26", "v27">>,
               <<"v14", "v15", "v23", "v24", "v25">>),
           Ode(<<"v16", "v25", "v29", "v30">>,
               <<"v17", "v18", "v26", "v27", "v28">>),
           Ode(<<"v19", "v28">>,
               <<"v20", "v21", "v29", "v30">>) >> ]

\* cMyBPC_model2 ("v2 = v2*activationFactor" is the field activated)
Net_model2 ==
    [ name |-> "cMyBPC_model2",
      species |-> SpeciesNames8,
      nargs |-> 3,
      nextra |-> 2,
      enzymes |-> <<"PKA", "PKC", "PP1", "PP2A">>,
      rsk2 |-> FALSE,
      signal |-> FALSE,
      activated |-> TRUE,
      kappa |->
        [ PKA |-> << Term(<<"P0">>, KRef(0)), Term(<<"A">>, KRef(3)),
                   Term(<<"AB">>, KRef(6)), Term(<<"D">>, KRef(21)),
                   Term(<<"AD">>, KRef(24)), Term(<<"ABD">>, KRef(27)) >>,
          PKC |-> << Term(<<"P0">>, KRef(9)), Term(<<"A">>, KRef(12)),
                   Term(<<"AB">>, KRef(15)), Term(<<"ABG">>, KRef(18)) >>,
          PP1 |-> << Term(<<"A">>, KRef(1)), Term(<<"AB">>, KRef(4)),
                   Term(<<"ABG">>, KRef(7)), Term(<<"D">>, KRef(10)),
                   Term(<<"AD">>, KRef(13)), Term(<<"AD">>, KRef(22)),
                   Term(<<"ABD">>, KRef(16)), Term(<<"ABD">>, KRef(25)),
                   Term(<<"ABGD">>, KRef(19)), Term(<<"ABGD">>, KRef(28)) >>,
          PP2A |-> << Term(<<"A">>, KRef(2)), Term(<<"AB">>, KRef(5)),
                   Term(<<"ABG">>, KRef(8)), Term(<<"D">>, KRef(11)),
                   Term(<<"AD">>, KRef(14)), Term(<<"AD">>, KRef(23)),
                   Term(<<"ABD">>, KRef(17)), Term(<<"ABD">>, KRef(26)),
                   Term(<<"ABGD">>, KRef(20)), Term(<<"ABGD">>, KRef(29)) >> ],
      fluxes |->
        << MM(1, "v1", kRef(0), "PKA", "P0", KRef(0), "PKA", "P0", KRef(0), "P0"),
           MM(4, "v4", kRef(3), "PKA", "A", KRef(3), "PKA", "A", KRef(3), "A"),
           MM(7, "v7", kRef(6), "PKA", "AB", KRef(6), "PKA", "AB", KRef(6), "AB"),
           MM(22, "v22", kRef(21), "PKA", "D", KRef(21), "PKA", "D", KRef(21), "D"),
           MM(25, "v25", kRef(24), "PKA", "AD", KRef(24), "PKA", "AD", KRef(24), "AD"),
           MM(28, "v28", kRef(27), "PKA", "ABD", KRef(27), "PKA", "ABD", KRef(27), "ABD"),
           MM(10, "v10", kRef(9), "PKC", "P0", KRef(9), "PKC", "P0", KRef(9), "P0"),
           MM(13, "v13", kRef(12), "PKC", "A", KRef(12), "PKC", "A", KRef(12), "A"),
           MM(16, "v16", kRef(15), "PKC", "AB", KRef(15), "PKC", "AB", KRef(15), "AB"),
           MM(19, "v19", kRef(18), "PKC", "ABG", KRef(18), "PKC", "ABG", KRef(18), "ABG"),
           MM(2, "v2", kRef(1), "PP1", "A", KRef(1), "PP1", "A", KRef(1), "A"),
           MM(5, "v5", kRef(4), "PP1", "AB", KRef(4), "PP1", "AB", KRef(4), "AB"),
           MM(8, "v8", kRef(7), "PP1", "ABG", KRef(7), "PP1", "ABG", KRef(7), "ABG"),
           MM(11, "v11", kRef(10), "PP1", "D", KRef(10), "PP1", "D", KRef(10), "D"),
           MM(14, "v14", kRef(13), "PP1", "AD", KRef(13), "PP1", "AD", KRef(13), "AD"),
           MM(17, "v17", kRef(16), "PP1", "ABD", KRef(16), "PP1", "ABD", KRef(16), "ABD"),
           MM(20, "v20", kRef(19), "PP1", "ABGD", KRef(19), "PP1", "ABGD", KRef(19), "ABGD"),
           MM(23, "v23", kRef(22), "PP1", "AD", KRef(22), "PP1", "AD", KRef(22), "AD"),
           MM(26, "v26", kRef(25), "PP1", "ABD", KRef(25), "PP1", "ABD", KRef(25), "ABD"),
           MM(29, "v29", kRef(28), "PP1", "ABGD", KRef(28), "PP1", "ABGD", KRef(28), "ABGD"),
           MM(3, "v3", kRef(2), "PP2A", "A", KRef(2), "PP2A", "A", KRef(2), "A"),
           MM(6, "v6", kRef(5), "PP2A", "AB", KRef(5), "PP2A", "AB", KRef(5), "AB"),
           MM(9, "v9", kRef(8), "PP2A", "ABG", KRef(8), "PP2A", "ABG", KRef(8), "ABG"),
           MM(12, "v12", kRef(11), "PP2A", "D", KRef(11), "PP2A", "D", KRef(11), "D"),
           MM(15, "v15", kRef(14), "PP2A", "AD", KRef(14), "PP2A", "AD", KRef(14), "AD"),
           MM(18, "v18", kRef(17), "PP2A", "ABD", KRef(17), "PP2A", "ABD", KRef(17), "ABD"),
           MM(21, "v21", kRef(20), "PP2A", "ABGD", KRef(20), "PP2A", "ABGD", KRef(20), "ABGD"),
           MM(24, "v24", kRef(23), "PP2A", "AD", KRef(23), "PP2A", "AD", KRef(23), "AD"),
           MM(27, "v27", kRef(26), "PP2A", "ABD", KRef(26), "PP2A", "ABD", KRef(26), "ABD"),
           MM(30, "v30", kRef(29), "PP2A", "ABGD", KRef(29), "PP2A", "ABGD", KRef(29), "ABGD") >>,
      odes |->
        << Ode(<<"v2", "v3", "v11", "v12">>,
               <<"v1", "v10">>),
           Ode(<<"v1", "v5", "v6", "v14", "v15">>,
               <<"v2", "v3", "v4", "v13">>),
           Ode(<<"v4", "v8", "v9", "v17", "v18">>,
               <<"v5", "v6", "v7", "v16">>),
           Ode(<<"v7", "v20", "v21">>,
               <<"v8", "v9", "v19">>),
           Ode(<<"v10", "v23", "v24">>,
               <<"v11", "v12", "v22">>),
           Ode(<<"v13", "v22", "v26", "v27">>,
               <<"v14", "v15", "v23", "v24", "v25">>),
           Ode(<<"v16", "v25", "v29", "v30">>,
               <<"v17", "v18", "v26", "v27", "v28">>),
           Ode(<<"v19", "v28">>,
               <<"v20", "v21", "v29", "v30">>) >> ]

\* cMyBPC_model3
Net_model3 ==
    [ name |-> "cMyBPC_model3",
      species |-> SpeciesNames8,
      nargs |-> 3,
      nextra |-> 3,
      enzymes |-> <<"PKA", "PKC", "PP1", "PP2A">>,
      rsk2 |-> FALSE,
      signal |-> FALSE,
      activated |-> FALSE,
      kappa |->
        [ PKA |-> << Term(<<"P0">>, KRef(0)), Term(<<"A">>, KRef(3)),
                   Term(<<"AB">>, KRef(6)), Term(<<"D">>, KRef(21)),
                   Term(<<"AD">>, KRef(24)), Term(<<"ABD">>, KRef(27)) >>,
          PKC |-> << Term(<<"P0">>, KRef(9)), Term(<<"A">>, KRef(12)),
                   Term(<<"AB">>, KRef(15)), Term(<<"ABG">>, KRef(18)) >>,
          PP1 |-> << Term(<<"A">>, KRef(1)), Term(<<"AB">>, KRef(4)),
                   Term(<<"ABG">>, KRef(7)), Term(<<"D">>, KRef(10)),
                   Term(<<"AD">>, KRef(13)), Term(<<"AD">>, KRef(22)),
                   Term(<<"ABD">>, KRef(16)), Term(<<"ABD">>, KRef(25)),
                   Term(<<"ABGD">>, KRef(19)), Term(<<"ABGD">>, KRef(28)) >>,
          PP2A |-> << Term(<<"A">>, KRef(2)), Term(<<"AB">>, KRef(5)),
                   Term(<<"ABG">>, KRef(8)), Term(<<"D">>, KRef(11)),
                   Term(<<"AD">>, KRef(14)), Term(<<"AD">>, KRef(23)),
                   Term(<<"ABD">>, KRef(17)), Term(<<"ABD">>, KRef(26)),
                   Term(<<"ABGD">>, KRef(20)), Term(<<"ABGD">>, KRef(29)) >> ],
      fluxes |->
        << MM(1, "v1", kRef(0), "PKA", "P0", KRef(0), "PKA", "P0", KRef(0), "P0"),
           MM(4, "v4", kRef(3), "PKA", "A", KRef(3), "PKA", "A", KRef(3), "A"),
           MM(7, "v7", kRef(6), "PKA", "AB", KRef(6), "PKA", "AB", KRef(6), "AB"),
           MM(22, "v22", kRef(21), "PKA", "D", KRef(21), "PKA", "D", KRef(21), "D"),
           MM(25, "v25", kRef(24), "PKA", "AD", KRef(24), "PKA", "AD", KRef(24), "AD"),
           MM(28, "v28", kRef(27), "PKA", "ABD", KRef(27), "PKA", "ABD", KRef(27), "ABD"),
           MM(10, "v10", kRef(9), "PKC", "P0", KRef(9), "PKC", "P0", KRef(9), "P0"),
           MM(13, "v13", kRef(12), "PKC", "A", KRef(12), "PKC", "A", KRef(12), "A"),
           MM(16, "v16", kRef(15), "PKC", "AB", KRef(15), "PKC", "AB", KRef(15), "AB"),
           MM(19, "v19", kRef(18), "PKC", "ABG", KRef(18), "PKC", "ABG", KRef(18), "ABG"),
           Allo(2, "v2", kRef(1), "PP1", "A", KRef(1), "PP1", "A", KRef(1), "A"),
           MM(5, "v5", kRef(4), "PP1", "AB", KRef(4), "PP1", "AB", KRef(4), "AB"),
           MM(8, "v8", kRef(7), "PP1", "ABG", KRef(7), "PP1", "ABG", KRef(7), "ABG"),
           MM(11, "v11", kRef(10), "PP1", "D", KRef(10), "PP1", "D", KRef(10), "D"),
           MM(14, "v14", kRef(13), "PP1", "AD", KRef(13), "PP1", "AD", KRef(13), "AD"),
           MM(17, "v17", kRef(16), "PP1", "ABD", KRef(16), "PP1", "ABD", KRef(16), "ABD"),
           MM(20, "v20", kRef(19), "PP1", "ABGD", KRef(19), "PP1", "ABGD", KRef(19), "ABGD"),
           MM(23, "v23", kRef(22), "PP1", "AD", KRef(22), "PP1", "AD", KRef(22), "AD"),
           MM(26, "v26", kRef(25), "PP1", "ABD", KRef(25), "PP1", "ABD", KRef(25), "ABD"),
           MM(29, "v29", kRef(28), "PP1", "ABGD", KRef(28), "PP1", "ABGD", KRef(28), "ABGD"),
           MM(3, "v3", kRef(2), "PP2A", "A", KRef(2), "PP2A", "A", KRef(2), "A"),
           MM(6, "v6", kRef(5), "PP2A", "AB", KRef(5), "PP2A", "AB", KRef(5), "AB"),
           MM(9, "v9", kRef(8), "PP2A", "ABG", KRef(8), "PP2A", "ABG", KRef(8), "ABG"),
           MM(12, "v12", kRef(11), "PP2A", "D", KRef(11), "PP2A", "D", KRef(11), "D"),
           MM(15, "v15", kRef(14), "PP2A", "AD", KRef(14), "PP2A", "AD", KRef(14), "AD"),
           MM(18, "v18", kRef(17), "PP2A", "ABD", KRef(17), "PP2A", "ABD", KRef(17), "ABD"),
           MM(21, "v21", kRef(20), "PP2A", "ABGD", KRef(20), "PP2A", "ABGD", KRef(20), "ABGD"),
           MM(24, "v24", kRef(23), "PP2A", "AD", KRef(23), "PP2A", "AD", KRef(23), "AD"),
           MM(27, "v27", kRef(26), "PP2A", "ABD", KRef(26), "PP2A", "ABD", KRef(26), "ABD"),
           MM(30, "v30", kRef(29), "PP2A", "ABGD", KRef(29), "PP2A", "ABGD", KRef(29), "ABGD") >>,
      odes |->
        << Ode(<<"v2", "v3", "v11", "v12">>,
               <<"v1", "v10">>),
           Ode(<<"v1", "v5", "v6", "v14", "v15">>,
               <<"v2", "v3", "v4", "v13">>),
           Ode(<<"v4", "v8", "v9", "v17", "v18">>,
               <<"v5", "v6", "v7", "v16">>),
           Ode(<<"v7", "v20", "v21">>,
               <<"v8", "v9", "v19">>),
           Ode(<<"v10", "v23", "v24">>,
               <<"v11", "v12", "v22">>),
           Ode(<<"v13", "v22", "v26", "v27">>,
               <<"v14", "v15", "v23", "v24", "v25">>),
           Ode(<<"v16", "v25", "v29", "v30">>,
               <<"v17", "v18", "v26", "v27", "v28">>),
           Ode(<<"v19", "v28">>,
               <<"v20", "v21", "v29", "v30">>) >> ]

\* cMyBPC_model4
Net_model4 ==
    [ name |-> "cMyBPC_model4",
      species |-> SpeciesNames,
      nargs |-> 3,
      nextra |-> 4,
      enzymes |-> <<"PKA", "PKC", "PP1", "PP2A">>,
      rsk2 |-> FALSE,
      signal |-> FALSE,
      activated |-> FALSE,
      kappa |->
        [ PKA |-> << Term(<<"P0">>, KRef(0)), Term(<<"A">>, KRef(3)),
                   Term(<<"AB">>, KRef(6)), Term(<<"D">>, KRef(21)),
                   Term(<<"AD">>, KRef(24)), Term(<<"ABD">>, KRef(27)) >>,
          PKC |-> << Term(<<"P0">>, KRef(9)), Term(<<"A">>, KRef(12)),
                   Term(<<"AB">>, KRef(15)), Term(<<"ABG">>, KRef(18)) >>,
          PP1 |-> << Term(<<"A">>, KRef(1)), Term(<<"AB">>, KRef(4)),
                   Term(<<"ABG">>, KRef(7)), Term(<<"D">>, KRef(10)),
                   Term(<<"AD">>, KRef(13)), Term(<<"AD">>, KRef(22)),
                   Term(<<"ABD">>, KRef(16)), Term(<<"ABD">>, KRef(25)),
                   Term(<<"ABGD">>, KRef(19)), Term(<<"ABGD">>, KRef(28)),
                   Term(<<"Atr">>, K2_fast) >>,
          PP2A |-> << Term(<<"A">>, KRef(2)), Term(<<"AB">>, KRef(5)),
                   Term(<<"ABG">>, KRef(8)), Term(<<"D">>, KRef(11)),
                   Term(<<"AD">>, KRef(14)), Term(<<"AD">>, KRef(23)),
                   Term(<<"ABD">>, KRef(17)), Term(<<"ABD">>, KRef(26)),
                   Term(<<"ABGD">>, KRef(20)), Term(<<"ABGD">>, KRef(29)) >> ],
      fluxes |->
        << MM(1, "v1", kRef(0), "PKA", "P0", KRef(0), "PKA", "P0", KRef(0), "P0"),
           MM(4, "v4", kRef(3), "PKA", "A", KRef(3), "PKA", "A", KRef(3), "A"),
           MM(7, "v7", kRef(6), "PKA", "AB", KRef(6), "PKA", "AB", KRef(6), "AB"),
           MM(22, "v22", kRef(21), "PKA", "D", KRef(21), "PKA", "D", KRef(21), "D"),
           MM(25, "v25", kRef(24), "PKA", "AD", KRef(24), "PKA", "AD", KRef(24), "AD"),
           MM(28, "v28", kRef(27), "PKA", "ABD", KRef(27), "PKA", "ABD", KRef(27), "ABD"),
           MM(10, "v10", kRef(9), "PKC", "P0", KRef(9), "PKC", "P0", KRef(9), "P0"),
           MM(13, "v13", kRef(12), "PKC", "A", KRef(12), "PKC", "A", KRef(12), "A"),
           MM(16, "v16", kRef(15), "PKC", "AB", KRef(15), "PKC", "AB", KRef(15), "AB"),
           MM(19, "v19", kRef(18), "PKC", "ABG", KRef(18), "PKC", "ABG", KRef(18), "ABG"),
           MM(2, "v2", kRef(1), "PP1", "A", KRef(1), "PP1", "A", KRef(1), "A"),
           MM(0, "v2_fast", k2_fast, "PP1", "Atr", K2_fast, "PP1", "Atr", K2_fast, "Atr"),
           MM(5, "v5", kRef(4), "PP1", "AB", KRef(4), "PP1", "AB", KRef(4), "AB"),
           MM(8, "v8", kRef(7), "PP1", "ABG", KRef(7), "PP1", "ABG", KRef(7), "ABG"),
           MM(11, "v11", kRef(10), "PP1", "D", KRef(10), "PP1", "D", KRef(10), "D"),
           MM(14, "v14", kRef(13), "PP1", "AD", KRef(13), "PP1", "AD", KRef(13), "AD"),
           MM(17, "v17", kRef(16), "PP1", "ABD", KRef(16), "PP1", "ABD", KRef(16), "ABD"),
           MM(20, "v20", kRef(19), "PP1", "ABGD", KRef(19), "PP1", "ABGD", KRef(19), "ABGD"),
           MM(23, "v23", kRef(22), "PP1", "AD", KRef(22), "PP1", "AD", KRef(22), "AD"),
           MM(26, "v26", kRef(25), "PP1", "ABD", KRef(25), "PP1", "ABD", KRef(25), "ABD"),
           MM(29, "v29", kRef(28), "PP1", "ABGD", KRef(28), "PP1", "ABGD", KRef(28), "ABGD"),
           MM(3, "v3", kRef(2), "PP2A", "A", KRef(2), "PP2A", "A", KRef(2), "A"),
           MM(6, "v6", kRef(5), "PP2A", "AB", KRef(5), "PP2A", "AB", KRef(5), "AB"),
           MM(9, "v9", kRef(8), "PP2A", "ABG", KRef(8), "PP2A", "ABG", KRef(8), "ABG"),
           MM(12, "v12", kRef(11), "PP2A", "D", KRef(11), "PP2A", "D", KRef(11), "D"),
           MM(15, "v15", kRef(14), "PP2A", "AD", KRef(14), "PP2A", "AD", KRef(14), "AD"),
           MM(18, "v18", kRef(17), "PP2A", "ABD", KRef(17), "PP2A", "ABD", KRef(17), "ABD"),
           MM(21, "v21", kRef(20), "PP2A", "ABGD", KRef(20), "PP2A", "ABGD", KRef(20), "ABGD"),
           MM(24, "v24", kRef(23), "PP2A", "AD", KRef(23), "PP2A", "AD", KRef(23), "AD"),
           MM(27, "v27", kRef(26), "PP2A", "ABD", KRef(26), "PP2A", "ABD", KRef(26), "ABD"),
           MM(30, "v30", kRef(29), "PP2A", "ABGD", KRef(29), "PP2A", "ABGD", KRef(29), "ABGD"),
           Iso("v_isoF", k_isoF, "Atr"), Iso("v_isoR", k_isoR, "A") >>,
      odes |->
        << Ode(<<"v2", "v2_fast", "v3", "v11", "v12">>,
               <<"v1", "v10">>),
           Ode(<<"v1", "v6", "v15", "v_isoF">>,
               <<"v2", "v3", "v4", "v13", "v_isoR">>),
           Ode(<<"v5", "v14", "v_isoR">>,
               <<"v_isoF", "v2_fast">>),
           Ode(<<"v4", "v8", "v9", "v17", "v18">>,
               <<"v5", "v6", "v7", "v16">>),
           Ode(<<"v7", "v20", "v21">>,
               <<"v8", "v9", "v19">>),
           Ode(<<"v10", "v23", "v24">>,
               <<"v11", "v12", "v22">>),
           Ode(<<"v13", "v22", "v26", "v27">>,
               <<"v14", "v15", "v23", "v24", "v25">>),
           Ode(<<"v16", "v25", "v29", "v30">>,
               <<"v17", "v18", "v26", "v27", "v28">>),
           Ode(<<"v19", "v28">>,
               <<"v20", "v21", "v29", "v30">>) >> ]

\* cMyBPC_model4_full
Net_model4_full ==
    [ name |-> "cMyBPC_model4_full",
      species |-> SpeciesNames,
      nargs |-> 3,
      nextra |-> 6,
      enzymes |-> <<"PKA", "PKC", "PP1", "PP2A">>,
      rsk2 |-> FALSE,
      signal |-> FALSE,
      activated |-> FALSE,
      kappa |->
        [ PKA |-> << Term(<<"P0">>, KRef(0)), Term(<<"A">>, KRef(3)),
                   Term(<<"AB">>, KRef(6)), Term(<<"D">>, KRef(21)),
                   Term(<<"AD">>, KRef(24)), Term(<<"ABD">>, KRef(27)) >>,
          PKC |-> << Term(<<"P0">>, KRef(9)), Term(<<"A">>, KRef(12)),
                   Term(<<"AB">>, KRef(15)), Term(<<"ABG">>, KRef(18)) >>,
          PP1 |-> << Term(<<"A">>, KRef(1)), Term(<<"AB">>, KRef(4)),
                   Term(<<"ABG">>, KRef(7)), Term(<<"D">>, KRef(10)),
                   Term(<<"AD">>, KRef(13)), Term(<<"AD">>, KRef(22)),
                   Term(<<"ABD">>, KRef(16)), Term(<<"ABD">>, KRef(25)),
                   Term(<<"ABGD">>, KRef(19)), Term(<<"ABGD">>, KRef(28)),
                   Term(<<"Atr">>, K2_fast) >>,
          PP2A |-> << Term(<<"A">>, KRef(2)), Term(<<"AB">>, KRef(5)),
                   Term(<<"ABG">>, KRef(8)), Term(<<"D">>, KRef(11)),
                   Term(<<"AD">>, KRef(14)), Term(<<"AD">>, KRef(23)),
                   Term(<<"ABD">>, KRef(17)), Term(<<"ABD">>, KRef(26)),
                   Term(<<"ABGD">>, KRef(20)), Term(<<"ABGD">>, KRef(29)),
                   Term(<<"Atr">>, K3_fast) >> ],
      fluxes |->
        << MM(1, "v1", kRef(0), "PKA", "P0", KRef(0), "PKA", "P0", KRef(0), "P0"),
           MM(4, "v4", kRef(3), "PKA", "A", KRef(3), "PKA", "A", KRef(3), "A"),
           MM(7, "v7", kRef(6), "PKA", "AB", KRef(6), "PKA", "AB", KRef(6), "AB"),
           MM(22, "v22", kRef(21), "PKA", "D", KRef(21), "PKA", "D", KRef(21), "D"),
           MM(25, "v25", kRef(24), "PKA", "AD", KRef(24), "PKA", "AD", KRef(24), "AD"),
           MM(28, "v28", kRef(27), "PKA", "ABD", KRef(27), "PKA", "ABD", KRef(27), "ABD"),
           MM(10, "v10", kRef(9), "PKC", "P0", KRef(9), "PKC", "P0", KRef(9), "P0"),
           MM(13, "v13", kRef(12), "PKC", "A", KRef(12), "PKC", "A", KRef(12), "A"),
           MM(16, "v16", kRef(15), "PKC", "AB", KRef(15), "PKC", "AB", KRef(15), "AB"),
           MM(19, "v19", kRef(18), "PKC", "ABG", KRef(18), "PKC", "ABG", KRef(18), "ABG"),
           MM(2, "v2", kRef(1), "PP1", "A", KRef(1), "PP1", "A", KRef(1), "A"),
           MM(0, "v2_fast", k2_fast, "PP1", "Atr", K2_fast, "PP1", "Atr", K2_fast, "Atr"),
           MM(5, "v5", kRef(4), "PP1", "AB", KRef(4), "PP1", "AB", KRef(4), "AB"),
           MM(8, "v8", kRef(7), "PP1", "ABG", KRef(7), "PP1", "ABG", KRef(7), "ABG"),
           MM(11, "v11", kRef(10), "PP1", "D", KRef(10), "PP1", "D", KRef(10), "D"),
           MM(14, "v14", kRef(13), "PP1", "AD", KRef(13), "PP1", "AD", KRef(13), "AD"),
           MM(17, "v17", kRef(16), "PP1", "ABD", KRef(16), "PP1", "ABD", KRef(16), "ABD"),
           MM(20, "v20", kRef(19), "PP1", "ABGD", KRef(19), "PP1", "ABGD", KRef(19), "ABGD"),
           MM(23, "v23", kRef(22), "PP1", "AD", KRef(22), "PP1", "AD", KRef(22), "AD"),
           MM(26, "v26", kRef(25), "PP1", "ABD", KRef(25), "PP1", "ABD", KRef(25), "ABD"),
           MM(29, "v29", kRef(28), "PP1", "ABGD", KRef(28), "PP1", "ABGD", KRef(28), "ABGD"),
           MM(3, "v3", kRef(2), "PP2A", "A", KRef(2), "PP2A", "A", KRef(2), "A"),
           MM(0, "v3_fast", k3_fast, "PP2A", "Atr", K3_fast, "PP2A", "Atr", K3_fast, "Atr"),
           MM(6, "v6", kRef(5), "PP2A", "AB", KRef(5), "PP2A", "AB", KRef(5), "AB"),
           MM(9, "v9", kRef(8), "PP2A", "ABG", KRef(8), "PP2A", "ABG", KRef(8), "ABG"),
           MM(12, "v12", kRef(11), "PP2A", "D", KRef(11), "PP2A", "D", KRef(11), "D"),
           MM(15, "v15", kRef(14), "PP2A", "AD", KRef(14), "PP2A", "AD", KRef(14), "AD"),
           MM(18, "v18", kRef(17), "PP2A", "ABD", KRef(17), "PP2A", "ABD", KRef(17), "ABD"),
           MM(21, "v21", kRef(20), "PP2A", "ABGD", KRef(20), "PP2A", "ABGD", KRef(20), "ABGD"),
           MM(24, "v24", kRef(23), "PP2A", "AD", KRef(23), "PP2A", "AD", KRef(23), "AD"),
           MM(27, "v27", kRef(26), "PP2A", "ABD", KRef(26), "PP2A", "ABD", KRef(26), "ABD"),
           MM(30, "v30", kRef(29), "PP2A", "ABGD", KRef(29), "PP2A", "ABGD", KRef(29), "ABGD"),
           Iso("v_isoF", k_isoF, "Atr"), Iso("v_isoR", k_isoR, "A") >>,
      odes |->
        << Ode(<<"v2", "v2_fast", "v3", "v3_fast", "v11", "v12">>,
               <<"v1", "v10">>),
           Ode(<<"v1", "v_isoF">>,
               <<"v2", "v3", "v4", "v13", "v_isoR">>),
           Ode(<<"v5", "v6", "v14", "v15", "v_isoR">>,
               <<"v_isoF", "v2_fast", "v3_fast">>),
           Ode(<<"v4", "v8", "v9", "v17", "v18">>,
               <<"v5", "v6", "v7", "v16">>),
           Ode(<<"v7", "v20", "v21">>,
               <<"v8", "v9", "v19">>),
           Ode(<<"v10", "v23", "v24">>,
               <<"v11", "v12", "v22">>),
           Ode(<<"v13", "v22", "v26", "v27">>,
               <<"v14", "v15", "v23", "v24", "v25">>),
           Ode(<<"v16", "v25", "v29", "v30">>,
               <<"v17", "v18", "v26", "v27", "v28">>),
           Ode(<<"v19", "v28">>,
               <<"v20", "v21", "v29", "v30">>) >> ]

\* cMyBPC_model_final as far as its return statement
Net_final ==
    [ name |-> "cMyBPC_model_final",
      species |-> SpeciesNames,
      nargs |-> 5,
      nextra |-> 6,
      enzymes |-> <<"PKA", "PKC", "PP1", "PP2A">>,
      rsk2 |-> FALSE,
      signal |-> FALSE,
      activated |-> FALSE,
      kappa |->
        [ PKA |-> << Term(<<"P0">>, KRef(0)), Term(<<"A">>, KRef(3)),
                   Term(<<"AB">>, KRef(6)), Term(<<"D">>, KRef(21)),
                   Term(<<"AD">>, KRef(24)), Term(<<"ABD">>, KRef(27)) >>,
          PKC |-> << Term(<<"P0">>, KRef(9)), Term(<<"A">>, KRef(12)),
                   Term(<<"AB">>, KRef(15)), Term(<<"ABG">>, KRef(18)) >>,
          PP1 |-> << Term(<<"A">>, KRef(1)), Term(<<"AB">>, KRef(4)),
                   Term(<<"ABG">>, KRef(7)), Term(<<"D">>, KRef(10)),
                   Term(<<"AD">>, KRef(13)), Term(<<"AD">>, KRef(22)),
                   Term(<<"ABD">>, KRef(16)), Term(<<"ABD">>, KRef(25)),
                   Term(<<"ABGD">>, KRef(19)), Term(<<"ABGD">>, KRef(28)),
                   Term(<<"Atr">>, K2_fast) >>,
          PP2A |-> << Term(<<"A">>, KRef(2)), Term(<<"AB">>, KRef(5)),
                   Term(<<"ABG">>, KRef(8)), Term(<<"D">>, KRef(11)),
                   Term(<<"AD">>, KRef(14)), Term(<<"AD">>, KRef(23)),
                   Term(<<"ABD">>, KRef(17)), Term(<<"ABD">>, KRef(26)),
                   Term(<<"ABGD">>, KRef(20)), Term(<<"ABGD">>, KRef(29)),
                   Term(<<"Atr">>, K3_fast) >> ],
      fluxes |->
        << MM(1, "v1", kRef(0), "PKA", "P0", KRef(0), "PKA", "P0", KRef(0), "P0"),
           MM(4, "v4", kRef(3), "PKA", "A", KRef(3), "PKA", "A", KRef(3), "A"),
           MM(7, "v7", kRef(6), "PKA", "AB", KRef(6), "PKA", "AB", KRef(6), "AB"),
           MM(22, "v22", kRef(21), "PKA", "D", KRef(21), "PKA", "D", KRef(21), "D"),
           MM(25, "v25", kRef(24), "PKA", "AD", KRef(24), "PKA", "AD", KRef(24), "AD"),
           MM(28, "v28", kRef(27), "PKA", "ABD", KRef(27), "PKA", "ABD", KRef(27), "ABD"),
           MM(10, "v10", kRef(9), "PKC", "P0", KRef(9), "PKC", "P0", KRef(9), "P0"),
           MM(13, "v13", kRef(12), "PKC", "A", KRef(12), "PKC", "A", KRef(12), "A"),
           MM(16, "v16", kRef(15), "PKC", "AB", KRef(15), "PKC", "AB", KRef(15), "AB"),
           MM(19, "v19", kRef(18), "PKC", "ABG", KRef(18), "PKC", "ABG", KRef(18), "ABG"),
           MM(2, "v2", kRef(1), "PP1", "A", KRef(1), "PP1", "A", KRef(1), "A"),
           MM(0, "v2_fast", k2_fast, "PP1", "Atr", K2_fast, "PP1", "Atr", K2_fast, "Atr"),
           MM(5, "v5", kRef(4), "PP1", "AB", KRef(4), "PP1", "AB", KRef(4), "AB"),
           MM(8, "v8", kRef(7), "PP1", "ABG", KRef(7), "PP1", "ABG", KRef(7), "ABG"),
           MM(11, "v11", kRef(10), "PP1", "D", KRef(10), "PP1", "D", KRef(10), "D"),
           MM(14, "v14", kRef(13), "PP1", "AD", KRef(13), "PP1", "AD", KRef(13), "AD"),
           MM(17, "v17", kRef(16), "PP1", "ABD", KRef(16), "PP1", "ABD", KRef(16), "ABD"),
           MM(20, "v20", kRef(19), "PP1", "ABGD", KRef(19), "PP1", "ABGD", KRef(19), "ABGD"),
           MM(23, "v23", kRef(22), "PP1", "AD", KRef(22), "PP1", "AD", KRef(22), "AD"),
           MM(26, "v26", kRef(25), "PP1", "ABD", KRef(25), "PP1", "ABD", KRef(25), "ABD"),
           MM(29, "v29", kRef(28), "PP1", "ABGD", KRef(28), "PP1", "ABGD", KRef(28), "ABGD"),
           MM(3, "v3", kRef(2), "PP2A", "A", KRef(2), "PP2A", "A", KRef(2), "A"),
           MM(0, "v3_fast", k3_fast, "PP2A", "Atr", K3_fast, "PP2A", "Atr", K3_fast, "Atr"),
           MM(6, "v6", kRef(5), "PP2A", "AB", KRef(5), "PP2A", "AB", KRef(5), "AB"),
           MM(9, "v9", kRef(8), "PP2A", "ABG", KRef(8), "PP2A", "ABG", KRef(8), "ABG"),
           MM(12, "v12", kRef(11), "PP2A", "D", KRef(11), "PP2A", "D", KRef(11), "D"),
           MM(15, "v15", kRef(14), "PP2A", "AD", KRef(14), "PP2A", "AD", KRef(14), "AD"),
           MM(18, "v18", kRef(17), "PP2A", "ABD", KRef(17), "PP2A", "ABD", KRef(17), "ABD"),
           MM(21, "v21", kRef(20), "PP2A", "ABGD", KRef(20), "PP2A", "ABGD", KRef(20), "ABGD"),
           MM(24, "v24", kRef(23), "PP2A", "AD", KRef(23), "PP2A", "AD", KRef(23), "AD"),
           MM(27, "v27", kRef(26), "PP2A", "ABD", KRef(26), "PP2A", "ABD", KRef(26), "ABD"),
           MM(30, "v30", kRef(29), "PP2A", "ABGD", KRef(29), "PP2A", "ABGD", KRef(29), "ABGD"),
           Iso("v_isoF", k_isoF, "Atr"), Iso("v_isoR", k_isoR, "A") >>,
      odes |->
        << Ode(<<"v2", "v2_fast", "v3", "v3_fast", "v11", "v12">>,
               <<"v1", "v10">>),
           Ode(<<"v1", "v_isoF">>,
               <<"v2", "v3", "v4", "v13", "v_isoR">>),
           Ode(<<"v5", "v6", "v14", "v15", "v_isoR">>,
               <<"v_isoF", "v2_fast", "v3_fast">>),
           Ode(<<"v4", "v8", "v9", "v17", "v18">>,
               <<"v5", "v6", "v7", "v16">>),
           Ode(<<"v7", "v20", "v21">>,
               <<"v8", "v9", "v19">>),
           Ode(<<"v10", "v23", "v24">>,
               <<"v11", "v12", "v22">>),
           Ode(<<"v13", "v22", "v26", "v27">>,
               <<"v14", "v15", "v23", "v24", "v25">>),
           Ode(<<"v16", "v25", "v29", "v30">>,
               <<"v17", "v18", "v26", "v27", "v28">>),
           Ode(<<"v19", "v28">>,
               <<"v20", "v21", "v29", "v30">>) >> ]

\* cMyBPC_model_final_RSK2
Net_final_RSK2 ==
    [ name |-> "cMyBPC_model_final_RSK2",
      species |-> SpeciesNames,
      nargs |-> 5,
      nextra |-> 6,
      enzymes |-> <<"PKA", "PKC", "PP1", "PP2A", "RSK2">>,
      rsk2 |-> TRUE,
      signal |-> TRUE,
      activated |-> FALSE,
      kappa |->
        [ PKA |-> << Term(<<"P0">>, KRef(0)), Term(<<"A", "Atr">>, KRef(3)),
                   Term(<<"AB">>, KRef(6)), Term(<<"D">>, KRef(21)),
                   Term(<<"AD">>, KRef(24)), Term(<<"ABD">>, KRef(27)) >>,
          PKC |-> << Term(<<"P0">>, KRef(9)), Term(<<"A", "Atr">>, KRef(12)),
                   Term(<<"AB">>, KRef(15)), Term(<<"ABG">>, KRef(18)) >>,
          PP1 |-> << Term(<<"A">>, KRef(1)), Term(<<"AB">>, KRef(4)),
                   Term(<<"ABG">>, KRef(7)), Term(<<"D">>, KRef(10)),
                   Term(<<"AD">>, KRef(13)), Term(<<"AD">>, KRef(22)),
                   Term(<<"ABD">>, KRef(16)), Term(<<"ABD">>, KRef(25)),
                   Term(<<"ABGD">>, KRef(19)), Term(<<"ABGD">>, KRef(28)),
                   Term(<<"Atr">>, K2_fast) >>,
          PP2A |-> << Term(<<"A">>, KRef(2)), Term(<<"AB">>, KRef(5)),
                   Term(<<"ABG">>, KRef(8)), Term(<<"D">>, KRef(11)),
                   Term(<<"AD">>, KRef(14)), Term(<<"AD">>, KRef(23)),
                   Term(<<"ABD">>, KRef(17)), Term(<<"ABD">>, KRef(26)),
                   Term(<<"ABGD">>, KRef(20)), Term(<<"ABGD">>, KRef(29)),
                   Term(<<"Atr">>, K3_fast) >> ],
      fluxes |->
        << MM(1, "v1", kRef(0), "PKA", "P0", KRef(0), "PKA", "P0", KRef(0), "P0"),
           MM(4, "v4", kRef(3), "PKA", "A", KRef(3), "PKA", "A", KRef(3), "A"),
           MM(4, "v4_2", kRef(3), "PKA", "Atr", KRef(3), "PKA", "Atr", KRef(3), "Atr"),
           MM(7, "v7", kRef(6), "PKA", "AB", KRef(6), "PKA", "AB", KRef(6), "AB"),
           MM(22, "v22", kRef(21), "PKA", "D", KRef(21), "PKA", "D", KRef(21), "D"),
           MM(25, "v25", kRef(24), "PKA", "AD", KRef(24), "PKA", "AD", KRef(24), "AD"),
           MM(28, "v28", kRef(27), "PKA", "ABD", KRef(27), "PKA", "ABD", KRef(27), "ABD"),
           MM(10, "v10", kRef(9), "PKC", "P0", KRef(9), "PKC", "P0", KRef(9), "P0"),
           MM(13, "v13", kRef(12), "PKC", "A", KRef(12), "PKC", "A", KRef(12), "A"),
           MM(13, "v13_2", kRef(12), "PKC", "Atr", KRef(12), "PKC", "Atr", KRef(12), "Atr"),
           MM(16, "v16", kRef(15), "PKC", "AB", KRef(15), "PKC", "AB", KRef(15), "AB"),
           MM(19, "v19", kRef(18), "PKC", "ABG", KRef(18), "PKC", "ABG", KRef(18), "ABG"),
           Rsk(31, "v31", kRef(30), "P0", KRef(30), "D", KRef(31), "P0"),
           Rsk(32, "v32", kRef(31), "D", KRef(31), "P0", KRef(30), "D"),
           MM(2, "v2", kRef(1), "PP1", "A", KRef(1), "PP1", "A", KRef(1), "A"),
           MM(0, "v2_fast", k2_fast, "PP1", "Atr", K2_fast, "PP1", "Atr", K2_fast, "Atr"),
           MM(5, "v5", kRef(4), "PP1", "AB", KRef(4), "PP1", "AB", KRef(4), "AB"),
           MM(8, "v8", kRef(7), "PP1", "ABG", KRef(7), "PP1", "ABG", KRef(7), "ABG"),
           MM(11, "v11", kRef(10), "PP1", "D", KRef(10), "PP1", "D", KRef(10), "D"),
           MM(14, "v14", kRef(13), "PP1", "AD", KRef(13), "PP1", "AD", KRef(13), "AD"),
           MM(17, "v17", kRef(16), "PP1", "ABD", KRef(16), "PP1", "ABD", KRef(16), "ABD"),
           MM(20, "v20", kRef(19), "PP1", "ABGD", KRef(19), "PP1", "ABGD", KRef(19), "ABGD"),
           MM(23, "v23", kRef(22), "PP1", "AD", KRef(22), "PP1", "AD", KRef(22), "AD"),
           MM(26, "v26", kRef(25), "PP1", "ABD", KRef(25), "PP1", "ABD", KRef(25), "ABD"),
           MM(29, "v29", kRef(28), "PP1", "ABGD", KRef(28), "PP1", "ABGD", KRef(28), "ABGD"),
           MM(3, "v3", kRef(2), "PP2A", "A", KRef(2), "PP2A", "A", KRef(2), "A"),
           MM(0, "v3_fast", k3_fast, "PP2A", "Atr", K3_fast, "PP2A", "Atr", K3_fast, "Atr"),
           MM(6, "v6", kRef(5), "PP2A", "AB", KRef(5), "PP2A", "AB", KRef(5), "AB"),
           MM(9, "v9", kRef(8), "PP2A", "ABG", KRef(8), "PP2A", "ABG", KRef(8), "ABG"),
           MM(12, "v12", kRef(11), "PP2A", "D", KRef(11), "PP2A", "D", KRef(11), "D"),
           MM(15, "v15", kRef(14), "PP2A", "AD", KRef(14), "PP2A", "AD", KRef(14), "AD"),
           MM(18, "v18", kRef(17), "PP2A", "ABD", KRef(17), "PP2A", "ABD", KRef(17), "ABD"),
           MM(21, "v21", kRef(20), "PP2A", "ABGD", KRef(20), "PP2A", "ABGD", KRef(20), "ABGD"),
           MM(24, "v24", kRef(23), "PP2A", "AD", KRef(23), "PP2A", "AD", KRef(23), "AD"),
           MM(27, "v27", kRef(26), "PP2A", "ABD", KRef(26), "PP2A", "ABD", KRef(26), "ABD"),
           MM(30, "v30", kRef(29), "PP2A", "ABGD", KRef(29), "PP2A", "ABGD", KRef(29), "ABGD"),
           Iso("v_isoF", k_isoF, "Atr"), Iso("v_isoR", k_isoR, "A") >>,
      odes |->
        << Ode(<<"v2", "v2_fast", "v3", "v3_fast", "v11", "v12">>,
               <<"v1", "v10", "v31">>),
           Ode(<<"v1", "v31", "v_isoF">>,
               <<"v2", "v3", "v4", "v13", "v_isoR">>),
           Ode(<<"v5", "v6", "v14", "v15", "v_isoR">>,
               <<"v_isoF", "v2_fast", "v3_fast", "v4_2", "v13_2">>),
           Ode(<<"v4", "v4_2", "v8", "v9", "v17", "v18">>,
               <<"v5", "v6", "v7", "v16">>),
           Ode(<<"v7", "v20", "v21">>,
               <<"v8", "v9", "v19">>),
           Ode(<<"v10", "v23", "v24">>,
               <<"v11", "v12", "v22", "v32">>),
           Ode(<<"v13", "v13_2", "v22", "v26", "v27", "v32">>,
               <<"v14", "v15", "v23", "v24", "v25">>),
           Ode(<<"v16", "v25", "v29", "v30">>,
               <<"v17", "v18", "v26", "v27", "v28">>),
           Ode(<<"v19", "v28">>,
               <<"v20", "v21", "v29", "v30">>) >> ]

\* the seven model functions and the names models_cMyBPC defines
Networks ==
    { Net_model1, Net_model2, Net_model3, Net_model4, Net_model4_full,
      Net_final, Net_final_RSK2 }
ModelNames == {n.name : n \in Networks}
NetOf(fn) == CHOOSE n \in Networks : n.name = fn

\* params[0], params[1] (with the RSK2 constants of params[4] appended
\* where the function appends them) and params[2]
Par(net, p, ref) ==
    LET kk == IF net.rsk2 THEN p.k \o <<p.rsk2[1], p.rsk2[2]>> ELSE p.k
        KK == IF net.rsk2 THEN p.K \o <<p.rsk2[3], p.rsk2[4]>> ELSE p.K
    IN  IF ref.arr = "k" THEN kk[ref.idx + 1]
        ELSE IF ref.arr = "K" THEN KK[ref.idx + 1]
        ELSE p.extra[ref.idx + 1]

\* the enzyme concentrations after "PKA = PKA*naFun(t,naFunParams)", sig
\* the value of the signal (1 in a function that makes no such assignment)
Enzymes(net, p, sig) ==
    [e \in {net.enzymes[j] : j \in DOMAIN net.enzymes} |->
        LET c == p.enz[CHOOSE j \in DOMAIN net.enzymes : net.enzymes[j] = e]
        IN  IF e = "PKA" THEN c * sig ELSE c]

\* a competition term Kappa
KappaValue(net, terms, s, p) ==
    RSum([j \in DOMAIN terms |->
            RDiv(RInt(SeqSum([m \in DOMAIN terms[j].subs |-> s[terms[j].subs[m]]])),
                 RInt(Par(net, p, terms[j].K)))])

\* "(AD+AB)" and "(lambda_r2*Ka)" of cMyBPC_model3's v2
Activators(s) == RInt(s["AD"] + s["AB"])
LambdaKa(net, p) == RInt(Par(net, p, lambda_r2) * Par(net, p, Ka))

\* the denominator of a reaction rate
FluxDen(net, f, s, p) ==
    IF f.form = "mm"
    THEN RAdd(RMul(RInt(Par(net, p, f.K)),
                   RSub(RAdd(RInt(1), KappaValue(net, net.kappa[f.kappa], s, p)),
                        RDiv(RInt(s[f.own]), RInt(Par(net, p, f.ownK))))),
              RInt(s[f.add]))
    ELSE IF f.form = "allo"
    THEN LET Km == RInt(Par(net, p, f.K))
         IN  RSum(<< Km,
                     RDiv(RMul(Activators(s), Km), RInt(Par(net, p, Ka))),
                     RDiv(RMul(RInt(s[f.sub]), Activators(s)), LambdaKa(net, p)),
                     RMul(Km, RSub(KappaValue(net, net.kappa[f.kappa], s, p),
                                   RDiv(RInt(s[f.own]), RInt(Par(net, p, f.ownK))))),
                     RInt(s[f.add]) >>)
    ELSE IF f.form = "rsk"
    THEN RAdd(RAdd(RInt(Par(net, p, f.K)),
                   RDiv(RInt(s[f.own]), RInt(Par(net, p, f.ownK)))),
              RInt(s[f.add]))
    ELSE RInt(1)

\* the numerator of a reaction rate
FluxNum(net, f, s, p, enz) ==
    IF f.form = "iso" THEN RInt(Par(net, p, f.k) * s[f.sub])
    ELSE IF f.form = "allo"
    THEN RAdd(RInt(Par(net, p, f.k) * enz[f.enz] * s[f.sub]),
              RDiv(RMul(RInt(Par(net, p, kcat_A) * enz[f.enz] * s[f.sub]),
                        Activators(s)),
                   LambdaKa(net, p)))
    ELSE RInt(Par(net, p, f.k) * enz[f.enz] * s[f.sub])

\* "frac_2P_3P = (AB+ABG+AD+ABD)/(P0+A+AB+ABG+D+AD+ABD+ABGD)" and
\* "activationFactor = 1 + r2_actF*frac_2P_3P/(r2_Ka + frac_2P_3P)"
Frac_2P_3P(xx, s) ==
    RDiv(RInt(s["AB"] + s["ABG"] + s["AD"] + s["ABD"]), RInt(SeqSum(xx)))
ActivationFactor(net, xx, s, p) ==
    RAdd(RInt(1),
         RDiv(RMul(RInt(Par(net, p, r2_actF)), Frac_2P_3P(xx, s)),
              RAdd(RInt(Par(net, p, r2_Ka)), Frac_2P_3P(xx, s))))

\* a reaction rate
FluxValue(net, f, s, p, enz) ==
    IF f.form = "iso" THEN FluxNum(net, f, s, p, enz)
    ELSE RDiv(FluxNum(net, f, s, p, enz), FluxDen(net, f, s, p))

\* the constants a function divides by
DivisorRefs(net) ==
    {net.fluxes[j].ownK : j \in {m \in DOMAIN net.fluxes : net.fluxes[m].form # "iso"}}
    \cup UNION {{net.kappa[e][j].K : j \in DOMAIN net.kappa[e]} : e \in DOMAIN net.kappa}
    \cup (IF \E j \in DOMAIN net.fluxes : net.fluxes[j].form = "allo"
          THEN {lambda_r2, Ka} ELSE {})

\* all reaction rates of a function, by name
Fluxes(net, xx, p, sig) ==
    LET s == UnpackAs(net.species, xx)
        enz == Enzymes(net, p, sig)
    IN  [nm \in {net.fluxes[j].name : j \in DOMAIN net.fluxes} |->
            LET v == FluxValue(net, net.fluxes[CHOOSE j \in DOMAIN net.fluxes :
                                                   net.fluxes[j].name = nm],
                               s, p, enz)
            IN  IF net.activated /\ nm = "v2"
                THEN RMul(v, ActivationFactor(net, xx, s, p))
                ELSE v]

\* a division by zero in "v2 = v2*activationFactor"
ActivationUndefined(net, xx, s, p) ==
    /\ net.activated
    /\ \/ SeqSum(xx) = 0
       \/ RAdd(RInt(Par(net, p, r2_Ka)), Frac_2P_3P(xx, s)).n = 0

\* the body of a model function from the competition terms to the return;
\* numpy's division by zero is a RuntimeWarning
ModelBody(net, xx, p, sig) ==
    LET s == UnpackAs(net.species, xx)
    IN  IF \/ \E r \in DivisorRefs(net) : Par(net, p, r) = 0
           \/ \E j \in DOMAIN net.fluxes : FluxDen(net, net.fluxes[j], s, p).n = 0
           \/ ActivationUndefined(net, xx, s, p)
        THEN Raised("RuntimeWarning")
        ELSE LET v == Fluxes(net, xx, p, sig)
             IN  Ok([j \in DOMAIN net.odes |->
                       RSub(RSum([m \in DOMAIN net.odes[j].plus |->
                                     v[net.odes[j].plus[m]]]),
                            RSum([m \in DOMAIN net.odes[j].minus |->
                                     v[net.odes[j].minus[m]]]))])

\* a model function called as fun(t, ICs, params, naFun, naFunParams) or as
\* fun(t, ICs, params); a tuple assignment of the wrong length is a
\* ValueError
ModelFunction(net, tt, ics, p, nf, nfp) ==
    IF \/ Len(ics) # Len(net.species)
       \/ Len(p.enz) # Len(net.enzymes)
       \/ (net.nextra > 0 /\ Len(p.extra) # net.nextra)
    THEN Raised("ValueError")
    ELSE IF net.signal
    THEN LET sig == CallNaFun(nf, tt, nfp)
         IN  IF sig.exc # "none" THEN sig ELSE ModelBody(net, ics, p, sig.val)
    ELSE ModelBody(net, ics, p, 1)

cMyBPC_model1(tt, ics, p) == ModelFunction(Net_model1, tt, ics, p, None, NoneParams)

cMyBPC_model2(tt, ics, p) == ModelFunction(Net_model2, tt, ics, p, None, NoneParams)

cMyBPC_model3(tt, ics, p) == ModelFunction(Net_model3, tt, ics, p, None, NoneParams)

cMyBPC_model4(tt, ics, p) == ModelFunction(Net_model4, tt, ics, p, None, NoneParams)

cMyBPC_model4_full(tt, ics, p) ==
    ModelFunction(Net_model4_full, tt, ics, p, None, NoneParams)

cMyBPC_model_final(tt, ics, p, nf, nfp) == ModelFunction(Net_final, tt, ics, p, nf, nfp)

cMyBPC_model_final_RSK2(tt, ics, p, nf, nfp) ==
    ModelFunction(Net_final_RSK2, tt, ics, p, nf, nfp)

(* ------------------------------ actions -------------------------------- *)

Init ==
    /\ model \in Models
    /\ ICs \in InitialConditions
    /\ params \in ParamSets
    /\ t0 \in {0, OneTimeUnit}
    /\ t_end \in TEnds
    /\ h \in {OneTimeUnit, OneTimeUnit \div 2}    \* steps of 1 and 0.5
    /\ naFun \in {None, "fromIntv"}
    /\ naFunParams \in {NoneParams} \cup IntervalLists
    /\ noisyS \in BOOLEAN
    /\ pc = "start"
    /\ tier = "nominal"
    /\ output = <<>>
    /\ exc = "none"
    /\ stepsize = 0
    /\ steps = 0
    /\ i = 0
    /\ x = <<>>
    /\ t = <<>>
    /\ evals = <<>>
    /\ calls = <<>>
    /\ notices = <<>>
    /\ probe = NoProbe
    /\ ladder = "run_simulation"

\* the arguments run_simulation hands to odeRK4 at step size hh
OdeArgs(hh) ==
    [fun |-> model, ICs |-> ICs, p |-> params, t_0 |-> t0,
     t_end |-> t_end + OneTimeUnit, stepsize |-> hh,
     naFun |-> naFun, naFunParams |-> naFunParams]

\* odeRK4 entered with a buffer kept between calls: the integration goes
\* on from the last row the call before left
InvokeContinuing(tr, hh) ==
    LET n == (t_end + OneTimeUnit) \div hh
    IN  /\ tier' = tr
        /\ stepsize' = hh
        /\ steps' = n
        /\ x' = InitialRows(IF Len(x) > 0 THEN x[Len(x)] ELSE ICs, n)
        /\ t' = [j \in 1..n |-> IF j = 1 THEN t0 ELSE 0]
        /\ i' = 1
        /\ evals' = <<>>
        /\ pc' = "ode"
        /\ calls' = Append(calls, [h |-> hh, res |-> "running", out |-> <<>>,
                                    args |-> OdeArgs(hh)])

\* entry of odeRK4(model, ICs, params, t0, t_end+1, hh, naFun, naFunParams);
\* every input has t_end+1 >= hh, so steps >= 1 and x[0,:] = ICs succeeds
Invoke(tr, hh) ==
    LET n == (t_end + OneTimeUnit) \div hh
    IN  /\ tier' = tr
        /\ stepsize' = hh
        /\ steps' = n
        /\ x' = InitialRows(ICs, n)
        /\ t' = [j \in 1..n |-> IF j = 1 THEN t0 ELSE 0]
        /\ i' = 1
        /\ evals' = <<>>
        /\ pc' = "ode"
        /\ calls' = Append(calls, [h |-> hh, res |-> "running", out |-> <<>>,
                                    args |-> OdeArgs(hh)])

\* the inner handler written as "except RuntimeWarning:" instead of "except:"
HandlerRuntimeWarningOnly(tr, e) ==
    IF tr \in {"nominal", "neg01", "neg001", "rw01"}
    THEN IF e # "RuntimeWarning" THEN "raised"
         ELSE IF tr = "rw01" THEN "except_all" ELSE "except_rw"
    ELSE "raised"

\* where an exception raised inside the odeRK4 call of call site tr lands
Handler(tr, e) ==
    IF tr \in {"nominal", "neg01", "neg001"}
    THEN IF e = "RuntimeWarning" THEN "except_rw" ELSE "raised"
    ELSE IF tr = "rw01" THEN "except_all"
    ELSE "raised"

\* the guard of the h=0.1 negative-value retry tested the wrong way round
RetriesOnNegativeInverted(noisy) == noisy = TRUE

\* "if noisyS == False": whether negative values are answered by a retry
RetriesOnNegative(noisy) == noisy = FALSE

\* the negative-value test repeated after the h=0.01 tier as well
AfterSliceChecksAgain(tr) ==
    IF tr \in {"neg01", "neg001"} THEN "sliced" ELSE "returned"

\* the statement that follows the down-sampling of call site tr
AfterSlice(tr) == IF tr = "neg01" THEN "sliced" ELSE "returned"

CallNominal ==
    /\ pc = "start"
    /\ Invoke("nominal", h)
    /\ UNCHANGED <<args, probe, output, exc, notices>>

OdeStep ==
    /\ pc = "ode"
    /\ Branch(naFun, naFunParams) # "neither"
    /\ i < steps
    /\ LET r == RK4(model, t0 + (i - 1) * stepsize, x[i], params, stepsize,
                    naFun, naFunParams)
       IN  IF r.exc = "none"
           THEN /\ x' = [x EXCEPT ![i + 1] = r.val]
                /\ t' = [t EXCEPT ![i + 1] = t0 + i * stepsize]
                /\ i' = i + 1
                /\ UNCHANGED <<pc, exc, calls>>
           ELSE /\ pc' = Handler(tier, r.exc)
                /\ exc' = IF Handler(tier, r.exc) = "raised" THEN r.exc ELSE exc
                /\ calls' = [calls EXCEPT ![Len(calls)].res = r.exc]
                /\ UNCHANGED <<x, t, i>>
    /\ evals' = RK4Evals(model, t0 + (i - 1) * stepsize, x[i], params, stepsize,
                          naFun, naFunParams)
    /\ UNCHANGED <<args, probe, tier, output, stepsize, steps, notices>>

OdeReturn ==
    /\ pc = "ode"
    /\ \/ Branch(naFun, naFunParams) = "neither"
       \/ i >= steps
    /\ output' = Transpose(x, Len(ICs))
    /\ calls' = [calls EXCEPT ![Len(calls)].res = "ok",
                              ![Len(calls)].out = Transpose(x, Len(ICs))]
    /\ pc' = "ret"
    /\ UNCHANGED <<args, probe, tier, exc, odeLocals, notices>>

NominalCheck ==
    /\ pc = "ret"
    /\ tier = "nominal"
    /\ IF HasNeg(output)
       THEN /\ notices' = Append(notices, NoticeNeg01)
            /\ IF RetriesOnNegative(noisyS)
               THEN Invoke("neg01", RetryStep("neg01"))
               ELSE /\ pc' = "returned"
                    /\ UNCHANGED <<tier, odeLocals, calls>>
       ELSE /\ pc' = "returned"
            /\ UNCHANGED <<tier, odeLocals, calls, notices>>
    /\ UNCHANGED <<args, probe, output, exc>>

Downsample ==
    /\ pc = "ret"
    /\ tier # "nominal"
    /\ output' = Slice(output, Stride(tier))
    /\ pc' = AfterSlice(tier)
    /\ UNCHANGED <<args, probe, tier, exc, odeLocals, calls, notices>>

Neg01Check ==
    /\ pc = "sliced"
    /\ IF ~HasNeg(output)
       THEN /\ notices' = Append(notices, NoticeSucceeded)
            /\ pc' = "returned"
            /\ UNCHANGED <<tier, odeLocals, calls>>
       ELSE /\ notices' = Append(notices, NoticeNeg001)
            /\ Invoke("neg001", RetryStep("neg001"))
    /\ UNCHANGED <<args, probe, output, exc>>

ExceptRuntimeWarning ==
    /\ pc = "except_rw"
    /\ notices' = Append(notices, NoticeRw01)
    /\ Invoke("rw01", RetryStep("rw01"))
    /\ UNCHANGED <<args, probe, output, exc>>

ExceptAll ==
    /\ pc = "except_all"
    /\ notices' = Append(notices, NoticeRw001)
    /\ Invoke("rw001", RetryStep("rw001"))
    /\ UNCHANGED <<args, probe, output, exc>>

Next ==
    \/ CallNominal
    \/ OdeStep
    \/ OdeReturn
    \/ NominalCheck
    \/ Downsample
    \/ Neg01Check
    \/ ExceptRuntimeWarning
    \/ ExceptAll

Spec == Init /\ [][Next]_vars

(* ------------- the library functions called on their own -------------- *)

\* times and interval lists handed to fromIntv: no pair, one pair, a pair
\* of equal ends, two and three pairs, pairs out of order, overlapping pairs
MaxProbeT == 7
ProbeTimes == 0..MaxProbeT
ProbeIntervals ==
    { <<>>, <<1, 3>>, <<2, 2>>, <<1, 2, 4, 5>>, <<0, 1, 3, 4, 6, 6>>,
      <<4, 5, 1, 2>>, <<1, 4, 3, 6>> }

FromIntvCalls ==
    { Call("fromIntv", [t |-> tt, intv |-> iv]) :
          tt \in ProbeTimes, iv \in ProbeIntervals }

\* pulses_decaying with the same times and lists and three decay constants
PulsesDecayingCalls ==
    { Call("pulses_decaying", [t |-> tt, p |-> <<iv, k>>]) :
          tt \in ProbeTimes, iv \in ProbeIntervals, k \in {0 - 2, 0, 1} }

\* horizons and steps handed to sig2array with the same lists
Sig2ArrayCalls ==
    { Call("sig2array", [sig |-> iv, t |-> tt, sz |-> z]) :
          iv \in ProbeIntervals, tt \in ProbeTimes, z \in {0, 1, 2, 3} }

\* trajectories handed to fraction: two columns, each one of a few
\* vectors of 8 or 9 species (all rows different, all zero, one species
\* only, all equal)
ProbeColumns(n) ==
    { [r \in 1..n |-> r],
      [r \in 1..n |-> 0],
      [r \in 1..n |-> IF r = 3 THEN 5 ELSE 0],
      [r \in 1..n |-> 1] }
ProbeTrajectories ==
    UNION { { Transpose(<<c1, c2>>, n) :
                c1 \in ProbeColumns(n), c2 \in ProbeColumns(n) } :
            n \in {8, 9} }
SpeciesLabels == {"0P", "1P", "2P", "3P", "4P"}

FractionCalls ==
    { Call("fraction", [x |-> xx, species |-> sp, model |-> md, filter |-> wf]) :
          xx \in ProbeTrajectories, sp \in SpeciesLabels \cup {"5P"},
          md \in {1, 3, 4, 5}, wf \in {"error", "default"} }

\* arguments handed to the model functions: states with one species only,
\* with every species, and with three; enzyme tuples with one kinase only,
\* with the phosphatases only and with every enzyme; rate constants that are
\* all equal and rate constants that differ from one reaction to the next; a
\* signal that is 1 from t = 1 to t = 2, and no signal function at all
StateVectors ==
    { <<0, 0, 2, 0, 0, 0, 0, 0, 0>>,
      <<2, 0, 0, 0, 0, 0, 0, 0, 0>>,
      <<1, 1, 1, 1, 1, 1, 1, 1, 1>>,
      <<2, 0, 1, 0, 0, 1, 0, 0, 0>> }
StateVectors8 ==
    { <<0, 2, 0, 0, 0, 0, 0, 0>>,
      <<2, 0, 0, 0, 0, 0, 0, 0>>,
      <<1, 1, 1, 1, 1, 1, 1, 1>>,
      <<2, 1, 0, 0, 1, 0, 0, 0>> }
StatesOf(net) == IF Len(net.species) = 8 THEN StateVectors8 ELSE StateVectors
EnzymeTuples ==
    { <<1, 0, 0, 0>>, <<0, 1, 0, 0>>, <<0, 0, 1, 1>>, <<1, 1, 1, 1>>,
      <<2, 1, 0, 0>> }
RateConstants(kcat, Km) ==
    [k |-> [n \in 1..30 |-> kcat], K |-> [n \in 1..30 |-> Km],
     extra |-> <<2, Km, 1, 1, 2, Km>>, rsk2 |-> <<kcat, kcat, Km, Km>>]
RateConstantsByIndex ==
    [k |-> [n \in 1..30 |-> 1 + (n % 3)], K |-> [n \in 1..30 |-> 1 + (n % 2)],
     extra |-> <<3, 1, 1, 2, 1, 2>>, rsk2 |-> <<1, 2, 2, 1>>]
RateConstantSets == {RateConstants(1, 1), RateConstants(3, 2), RateConstantsByIndex}
ModelParams(net) ==
    { [k |-> rc.k, K |-> rc.K, extra |-> SubSeq(rc.extra, 1, net.nextra),
       rsk2 |-> rc.rsk2,
       enz |-> IF net.rsk2 THEN Append(e, r) ELSE e] :
          rc \in RateConstantSets, e \in EnzymeTuples, r \in {1} }
SignalTimes == 0..3
SignalArgs ==
    { [naFun |-> "fromIntv", naFunParams |-> Intervals(<<1, 2>>)],
      [naFun |-> None, naFunParams |-> NoneParams] }

ModelCalls(net) ==
    IF net.nargs = 5
    THEN { Call(net.name, [t |-> tt, ICs |-> xx, params |-> p, naFun |-> sa.naFun,
                           naFunParams |-> sa.naFunParams]) :
              tt \in SignalTimes, xx \in StatesOf(net), p \in ModelParams(net),
              sa \in SignalArgs }
    ELSE { Call(net.name, [t |-> tt, ICs |-> xx, params |-> p]) :
              tt \in {0}, xx \in StatesOf(net), p \in ModelParams(net) }

ProbeCalls ==
    FromIntvCalls \cup PulsesDecayingCalls \cup Sig2ArrayCalls
        \cup FractionCalls
        \cup UNION { ModelCalls(net) : net \in Networks }

\* run_simulation is not running; one library call is about to be made
InitLib ==
    /\ model = CHOOSE m \in Models : m.nargs = 5
    /\ ICs = CHOOSE v \in InitialConditions : TRUE
    /\ params = CHOOSE p \in ParamSets : TRUE
    /\ t0 = 0
    /\ t_end = OneTimeUnit
    /\ h = OneTimeUnit
    /\ naFun = "fromIntv"
    /\ naFunParams = CHOOSE nfp \in IntervalLists : TRUE
    /\ noisyS = FALSE
    /\ pc = "start"
    /\ tier = "nominal"
    /\ output = <<>>
    /\ exc = "none"
    /\ stepsize = 0
    /\ steps = 0
    /\ i = 0
    /\ x = <<>>
    /\ t = <<>>
    /\ evals = <<>>
    /\ calls = <<>>
    /\ notices = <<>>
    /\ probe \in ProbeCalls
    /\ ladder = "run_simulation"

simulation == <<args, pc, tier, output, exc, odeLocals, calls, notices>>

ApplyFromIntv ==
    /\ probe.fn = "fromIntv"
    /\ ~probe.done
    /\ probe' = Return(probe, fromIntv(probe.in.t, probe.in.intv))
    /\ UNCHANGED simulation

ApplyPulsesDecaying ==
    /\ probe.fn = "pulses_decaying"
    /\ ~probe.done
    /\ probe' = Return(probe, pulses_decaying(probe.in.t, probe.in.p))
    /\ UNCHANGED simulation

ApplySig2Array ==
    /\ probe.fn = "sig2array"
    /\ ~probe.done
    /\ probe' = Return(probe, sig2array(probe.in.sig, probe.in.t, probe.in.sz))
    /\ UNCHANGED simulation

ApplyFraction ==
    /\ probe.fn = "fraction"
    /\ ~probe.done
    /\ probe' = Return(probe, fraction(probe.in.x, probe.in.species,
                                        probe.in.model, probe.in.filter))
    /\ UNCHANGED simulation

ApplyModel1 ==
    /\ probe.fn = "cMyBPC_model1"
    /\ ~probe.done
    /\ probe' = Return(probe, cMyBPC_model1(probe.in.t, probe.in.ICs,
                                               probe.in.params))
    /\ UNCHANGED simulation

ApplyModel2 ==
    /\ probe.fn = "cMyBPC_model2"
    /\ ~probe.done
    /\ probe' = Return(probe, cMyBPC_model2(probe.in.t, probe.in.ICs,
                                               probe.in.params))
    /\ UNCHANGED simulation

ApplyModel3 ==
    /\ probe.fn = "cMyBPC_model3"
    /\ ~probe.done
    /\ probe' = Return(probe, cMyBPC_model3(probe.in.t, probe.in.ICs,
                                               probe.in.params))
    /\ UNCHANGED simulation

ApplyModel4 ==
    /\ probe.fn = "cMyBPC_model4"
    /\ ~probe.done
    /\ probe' = Return(probe, cMyBPC_model4(probe.in.t, probe.in.ICs,
                                               probe.in.params))
    /\ UNCHANGED simulation

ApplyModel4Full ==
    /\ probe.fn = "cMyBPC_model4_full"
    /\ ~probe.done
    /\ probe' = Return(probe, cMyBPC_model4_full(probe.in.t, probe.in.ICs,
                                               probe.in.params))
    /\ UNCHANGED simulation

ApplyModelFinal ==
    /\ probe.fn = "cMyBPC_model_final"
    /\ ~probe.done
    /\ probe' = Return(probe, cMyBPC_model_final(probe.in.t, probe.in.ICs,
                               probe.in.params, probe.in.naFun,
                               probe.in.naFunParams))
    /\ UNCHANGED simulation

ApplyModelFinalRSK2 ==
    /\ probe.fn = "cMyBPC_model_final_RSK2"
    /\ ~probe.done
    /\ probe' = Return(probe, cMyBPC_model_final_RSK2(probe.in.t, probe.in.ICs,
                               probe.in.params, probe.in.naFun,
                               probe.in.naFunParams))
    /\ UNCHANGED simulation

NextLib ==
    \/ ApplyFromIntv
    \/ ApplyPulsesDecaying
    \/ ApplySig2Array
    \/ ApplyFraction
    \/ ApplyModel1
    \/ ApplyModel2
    \/ ApplyModel3
    \/ ApplyModel4
    \/ ApplyModel4Full
    \/ ApplyModelFinal
    \/ ApplyModelFinalRSK2

SpecLib == InitLib /\ [][NextLib]_vars

(* ------- the retry ladders written out in model_comparisons ----------- *)

\* the cells that integrate cMyBPC_model4 (lines 855-871), cMyBPC_model4_full
\* (1024-1046) and the tQSSA form of cMyBPC_model4_full (1486-1508)
InlineLadders == {"model4", "model4_full", "model4_full_tQSSA"}

\* the attribute of models_cMyBPC that a call site of a cell names
SiteFunction(ld, tr) ==
    CASE ld = "model4" -> "cMyBPC_model4"
      [] ld = "model4_full" -> "cMyBPC_model4_full"
      [] ld = "model4_full_tQSSA" ->
            IF tr = "nominal" THEN "cMyBPC_model4_full"
            ELSE "cMyBPC_model4_full_tQSSA"

\* "mod.<name>": a name that models_cMyBPC does not define is an
\* AttributeError
ModAttr(name) ==
    IF name \in ModelNames
    THEN Ok([name |-> name, nargs |-> NetOf(name).nargs])
    ELSE Raised("AttributeError")

\* the arguments a call site hands to odeRK4:
\* "fun.odeRK4(mod.<name>,ICs,params,t0,tend+1,h)" and the same with h2
SiteArgs(ld, tr) ==
    [fun |-> [name |-> SiteFunction(ld, tr), nargs |-> 3],
     ICs |-> ICs, p |-> params, t_0 |-> t0,
     t_end |-> t_end + OneTimeUnit,
     stepsize |-> IF tr = "nominal" THEN h ELSE RetryStep(tr),
     naFun |-> None, naFunParams |-> NoneParams]

\* where an exception raised by the call of call site tr lands
SiteHandler(ld, tr, e) ==
    IF tr \in {"nominal", "neg01"}
    THEN IF e = "RuntimeWarning" THEN "except_rw" ELSE "raised"
    ELSE IF tr = "rw01" /\ ld # "model4" THEN "except_all"
    ELSE "raised"

NoticeNegInline ==
    "Numerical issue occured: negative values\n retrying with reduced stepsize..."
NoticeRwInline ==
    "Numerical issue occured: runtime warning\n retrying with reduced stepsize..."
NoticeFailed == "failed!"

\* a cell is about to make its nominal call: t0 = 0, h = 1, no signal
InitCmp ==
    /\ ladder \in InlineLadders
    /\ model = [name |-> SiteFunction(ladder, "nominal"), nargs |-> 3]
    /\ ICs \in InitialConditions
    /\ params \in ParamSets
    /\ t0 = 0
    /\ t_end \in TEnds
    /\ h = OneTimeUnit
    /\ naFun = None
    /\ naFunParams = NoneParams
    /\ noisyS = FALSE
    /\ pc = "call"
    /\ tier = "nominal"
    /\ output = <<>>
    /\ exc = "none"
    /\ stepsize = 0
    /\ steps = 0
    /\ i = 0
    /\ x = <<>>
    /\ t = <<>>
    /\ evals = <<>>
    /\ calls = <<>>
    /\ notices = <<>>
    /\ probe = NoProbe

\* "output = fun.odeRK4(mod.<name>, ...)" of call site tier: the attribute is
\* looked up and odeRK4 is entered
InlineCall ==
    /\ ladder \in InlineLadders
    /\ pc = "call"
    /\ LET a == SiteArgs(ladder, tier)
           f == ModAttr(a.fun.name)
           n == a.t_end \div a.stepsize
       IN  IF f.exc = "none"
           THEN /\ stepsize' = a.stepsize
                /\ steps' = n
                /\ x' = InitialRows(a.ICs, n)
                /\ t' = [j \in 1..n |-> IF j = 1 THEN a.t_0 ELSE 0]
                /\ i' = 1
                /\ evals' = <<>>
                /\ pc' = "ode"
                /\ calls' = Append(calls, [h |-> a.stepsize, res |-> "running",
                                           out |-> <<>>, args |-> a])
                /\ UNCHANGED exc
           ELSE /\ pc' = SiteHandler(ladder, tier, f.exc)
                /\ exc' = IF SiteHandler(ladder, tier, f.exc) = "raised"
                          THEN f.exc ELSE exc
                /\ calls' = Append(calls, [h |-> a.stepsize, res |-> f.exc,
                                           out |-> <<>>, args |-> a])
                /\ UNCHANGED odeLocals
    /\ UNCHANGED <<args, probe, tier, output, notices>>

\* one step of odeRK4 inside a call of a cell
InlineOdeStep ==
    /\ ladder \in InlineLadders
    /\ pc = "ode"
    /\ i < steps
    /\ LET a == calls[Len(calls)].args
           r == RK4(a.fun, a.t_0 + (i - 1) * stepsize, x[i], a.p, stepsize,
                    a.naFun, a.naFunParams)
       IN  IF r.exc = "none"
           THEN /\ x' = [x EXCEPT ![i + 1] = r.val]
                /\ t' = [t EXCEPT ![i + 1] = a.t_0 + i * stepsize]
                /\ i' = i + 1
                /\ UNCHANGED <<pc, exc, calls>>
           ELSE /\ pc' = SiteHandler(ladder, tier, r.exc)
                /\ exc' = IF SiteHandler(ladder, tier, r.exc) = "raised"
                          THEN r.exc ELSE exc
                /\ calls' = [calls EXCEPT ![Len(calls)].res = r.exc]
                /\ UNCHANGED <<x, t, i>>
    /\ evals' = LET a == calls[Len(calls)].args
                IN  RK4Evals(a.fun, a.t_0 + (i - 1) * stepsize, x[i], a.p,
                             stepsize, a.naFun, a.naFunParams)
    /\ UNCHANGED <<args, probe, tier, output, stepsize, steps, notices>>

InlineNominalCheck ==
    /\ ladder \in InlineLadders
    /\ pc = "ret"
    /\ tier = "nominal"
    /\ IF HasNeg(output)
       THEN /\ notices' = Append(notices, NoticeNegInline)
            /\ tier' = "neg01"
            /\ pc' = "call"
       ELSE /\ pc' = "returned"
            /\ UNCHANGED <<tier, notices>>
    /\ UNCHANGED <<args, probe, output, exc, odeLocals, calls>>

InlineDownsample ==
    /\ ladder \in InlineLadders
    /\ pc = "ret"
    /\ tier # "nominal"
    /\ output' = Slice(output, Stride(tier))
    /\ pc' = IF tier = "neg01" THEN "sliced" ELSE "returned"
    /\ UNCHANGED <<args, probe, tier, exc, odeLocals, calls, notices>>

InlineNeg01Check ==
    /\ ladder \in InlineLadders
    /\ pc = "sliced"
    /\ notices' = Append(notices, IF ~HasNeg(output) THEN NoticeSucceeded
                                  ELSE NoticeFailed)
    /\ pc' = "returned"
    /\ UNCHANGED <<args, probe, tier, output, exc, odeLocals, calls>>

InlineExceptRuntimeWarning ==
    /\ ladder \in InlineLadders
    /\ pc = "except_rw"
    /\ notices' = Append(notices, IF ladder = "model4" THEN NoticeRwInline
                                  ELSE NoticeRw01)
    /\ tier' = "rw01"
    /\ pc' = "call"
    /\ UNCHANGED <<args, probe, output, exc, odeLocals, calls>>

InlineExceptAll ==
    /\ ladder \in InlineLadders
    /\ pc = "except_all"
    /\ notices' = Append(notices, NoticeRw001)
    /\ tier' = "rw001"
    /\ pc' = "call"
    /\ UNCHANGED <<args, probe, output, exc, odeLocals, calls>>

NextCmp ==
    \/ InlineCall
    \/ InlineOdeStep
    \/ OdeReturn
    \/ InlineNominalCheck
    \/ InlineDownsample
    \/ InlineNeg01Check
    \/ InlineExceptRuntimeWarning
    \/ InlineExceptAll

SpecCmp == InitCmp /\ [][NextCmp]_vars

(* --------------------- vocabulary of the properties -------------------- *)

Terminal == pc \in {"returned", "raised"}
NCalls == Len(calls)
LastCall == calls[Len(calls)]
Completed(k) == k <= Len(calls) /\ calls[k].res = "ok"
RaisedIn(k) == k <= Len(calls) /\ calls[k].res \notin {"ok", "running"}

\* column c (counted from 0) of a state-major trajectory
Column(out, c) == [r \in DOMAIN out |-> out[r][c + 1]]

\* every column c of out is column k*c of fine
StridedFrom(out, fine, k) ==
    /\ NRows(out) = NRows(fine)
    /\ NCols(out) >= 1
    /\ \A c \in 0..(NCols(out) - 1) :
          /\ k * c < NCols(fine)
          /\ Column(out, c) = Column(fine, k * c)

(* ------------------------------- C1 ------------------------------------ *)

\* C1: nominal h=1, noisyS=False: if the h=1 integration completes with a
\* negative value and the h=0.1 integration completes with no negative value
\* in its every-10th-column trajectory, then run_simulation returns after
\* exactly two integrator invocations (h=1, then h=0.1), and what it returns
\* has no negative value and as many columns as the h=1 trajectory.
C1_Premise ==
    /\ h = OneTimeUnit
    /\ noisyS = FALSE
    /\ LET nom == OdeRK4(OdeArgs(OneTimeUnit))
           fine == OdeRK4(OdeArgs(H01))
       IN  /\ nom.exc = "none" /\ HasNeg(nom.val)
           /\ fine.exc = "none" /\ ~HasNeg(Slice(fine.val, 10))

C1_RetryLadderH01 ==
    (Terminal /\ C1_Premise) =>
        /\ pc = "returned"
        /\ NCalls = 2
        /\ calls[1].h = OneTimeUnit
        /\ calls[2].h = H01
        /\ ~HasNeg(output)
        /\ NCols(output) = NCols(calls[1].out)

C1_Witness ==
    pc = "returned" /\ C1_Premise /\ NCalls = 2 /\ ~HasNeg(output)
    /\ HasNeg(calls[1].out)

(* ------------------------------- C2 ------------------------------------ *)

\* C2: when run_simulation returns the result of an h=0.1 retry, returned
\* column i is column 10*i of that h=0.1 integration; when it returns the
\* result of an h=0.01 retry, returned column i is column 100*i of it.
C2_DownsamplingAlignment ==
    (pc = "returned" /\ tier # "nominal") =>
        /\ LastCall.res = "ok"
        /\ tier \in {"neg01", "rw01"} =>
              LastCall.h = H01 /\ StridedFrom(output, LastCall.out, 10)
        /\ tier \in {"neg001", "rw001"} =>
              LastCall.h = H001 /\ StridedFrom(output, LastCall.out, 100)

C2_Witness ==
    pc = "returned" /\ tier = "rw01" /\ NCols(output) >= 2
    /\ Column(output, 1) # Column(LastCall.out, 1)

C2_Witness001 ==
    pc = "returned" /\ tier = "neg001" /\ NCols(output) >= 2
    /\ Column(output, 1) # Column(LastCall.out, 10)

(* ------------------------------- C3 ------------------------------------ *)

\* C3: on every path on which run_simulation returns, the returned
\* trajectory has len(ICs) rows and floor((t_end+1)/h) columns, for every
\* nominal step size h.
C3_ShapeForEveryStep ==
    pc = "returned" =>
        /\ NRows(output) = Len(ICs)
        /\ NCols(output) = (t_end + OneTimeUnit) \div h

(* ------------------------------- C4 ------------------------------------ *)

\* C4: every call of run_simulation invokes the integrator at most three
\* times.
C4_AtMostThreeInvocations == NCalls <= 3

(* ------------------------------- C5 ------------------------------------ *)

C6_RuntimeWarningLadder ==
    (NCalls >= 1 /\ calls[1].res = "RuntimeWarning") =>
        /\ NCalls <= 3
        /\ NCalls >= 2 => calls[2].h = H01
        /\ NCalls >= 3 => RaisedIn(2) /\ calls[3].h = H001
        /\ Terminal =>
              /\ NCalls >= 2
              /\ Completed(2) =>
                    /\ pc = "returned" /\ NCalls = 2
                    /\ output = Slice(calls[2].out, 10)
                    /\ StridedFrom(output, calls[2].out, 10)
              /\ RaisedIn(2) =>
                    /\ NCalls = 3
                    /\ Completed(3) =>
                          /\ pc = "returned"
                          /\ StridedFrom(output, calls[3].out, 100)
                    /\ RaisedIn(3) => pc = "raised" /\ exc = calls[3].res

C6_Witness ==
    /\ pc = "raised" /\ NCalls = 3 /\ calls[1].res = "RuntimeWarning"
    /\ RaisedIn(2) /\ RaisedIn(3) /\ exc = calls[3].res

C6_WitnessReturned ==
    /\ pc = "returned" /\ NCalls = 3 /\ calls[1].res = "RuntimeWarning"
    /\ RaisedIn(2) /\ Completed(3)

(* ------------------------------- C7 ------------------------------------ *)

\* C7: if the every-10th-column trajectory of the h=0.1 negative-value retry
\* still has a negative value, the controller next integrates at h=0.01 and,
\* when that integration completes, returns every 100th column of it; if it
\* has none, no h=0.01 integration is performed.
C7_Premise ==
    /\ Completed(1) /\ HasNeg(calls[1].out) /\ noisyS = FALSE
    /\ Completed(2)

C7_WitnessNoThirdCall ==
    /\ C7_Premise /\ ~HasNeg(Slice(calls[2].out, 10))
    /\ pc = "returned" /\ NCalls = 2

(* ------------------------------- C8 ------------------------------------ *)

\* C8: if the down-sampled trajectory of the h=0.01 tier still has negative
\* values, run_simulation raises nothing and integrates no further: it
\* returns that trajectory.
C8_FinestTierSoftFailure ==
    (tier \in {"neg001", "rw001"} /\ LastCall.res = "ok"
       /\ HasNeg(Slice(LastCall.out, 100))) =>
        /\ LastCall.h = H001
        /\ pc \in {"ret", "returned"}
        /\ exc = "none"
        /\ pc = "returned" => output = Slice(LastCall.out, 100)

C8_Witness ==
    /\ pc = "returned" /\ tier \in {"neg001", "rw001"} /\ HasNeg(output)
    /\ output = Slice(LastCall.out, 100)

(* ------------------------------- C9 ------------------------------------ *)

\* C9: run_simulation returns a trajectory with a negative value only if the
\* h=0.01 tier was executed in that call.
C9_NegativeOnlyAfterFinestTier ==
    (pc = "returned" /\ HasNeg(output)) =>
        \E k \in 1..NCalls : calls[k].h = H001

(* ------------------------------- C10 ----------------------------------- *)

\* C10: an exception other than a RuntimeWarning raised by any integration
\* attempt propagates to the caller and triggers no further attempt.
C10_OtherExceptionsPropagate ==
    \A k \in 1..NCalls :
        (RaisedIn(k) /\ calls[k].res # "RuntimeWarning") =>
            /\ k = NCalls
            /\ pc = "raised"
            /\ exc = calls[k].res

(* ------------------------------- C11 ----------------------------------- *)

\* the notices that state the outcome of a retry tier
OutcomeNotices == {NoticeSucceeded}

\* the notice that announces the retry of call site tr
EntryNotice(tr) ==
    CASE tr = "neg01"  -> NoticeNeg01
      [] tr = "neg001" -> NoticeNeg001
      [] tr = "rw01"   -> NoticeRw01
      [] tr = "rw001"  -> NoticeRw001

\* C11: every retry tier that run_simulation enters emits a notice naming
\* the reduced step size before the re-integration and, after it, a notice
\* stating whether the tier succeeded, on both paths and for both tiers.
C11_EveryTierReportsOutcome ==
    /\ (pc = "ode" /\ tier # "nominal") =>
          notices[Len(notices)] = EntryNotice(tier)
    /\ (pc = "returned" /\ tier # "nominal") =>
          /\ Len(notices) >= 2
          /\ notices[Len(notices) - 1] = EntryNotice(tier)
          /\ notices[Len(notices)] \in OutcomeNotices

(* ------------------------------- C12 ----------------------------------- *)

\* C12: within one call of run_simulation each integrator invocation uses a
\* step size strictly smaller than the invocation before it, on every path.
C12_StepSizesStrictlyDecrease ==
    \A k \in 2..NCalls : calls[k].h < calls[k - 1].h

(* ------------------------------- C13 ----------------------------------- *)

\* a step of the stepping loop has just completed: x[i] is the new row
StepCompleted == pc = "ode" /\ i >= 2

\* C13: for every completed step, fun was evaluated exactly four times, in
\* the order k1, k2, k3, k4, at x, x+k1/2, x+k2/2, x+k3 with x the previous
\* column, all four at the same time t0+(i-1)*h of the previous column, and
\* the new column is x+(k1+2*k2+2*k3+k4)/6, in both stepping branches.
C13_ClassicalRK4Step ==
    StepCompleted =>
        LET tp == t0 + (i - 2) * stepsize
            xp == x[i - 1]
            k(j) == VTimesStep(evals[j].res.val, stepsize)
        IN  /\ Len(evals) = 4
            /\ \A j \in 1..4 :
                  /\ evals[j].t = tp
                  /\ evals[j].res.exc = "none"
                  /\ evals[j].res = fun(model, tp, evals[j].x, params, naFun,
                                        naFunParams, evals[j].nargs)
            /\ evals[1].x = xp
            /\ evals[2].x = VAdd(xp, VHalf(k(1)))
            /\ evals[3].x = VAdd(xp, VHalf(k(2)))
            /\ evals[4].x = VAdd(xp, k(3))
            /\ x[i] = [j \in DOMAIN xp |->
                          xp[j] + (k(1)[j] + 2 * k(2)[j] + 2 * k(3)[j] + k(4)[j]) \div 6]

\* a second step of the non-autonomous branch that moved the state, the
\* four slopes not all equal
C13_Witness ==
    /\ StepCompleted
    /\ i >= 3
    /\ Branch(naFun, naFunParams) = "nonautonomous"
    /\ t0 > 0
    /\ x[i] # x[i - 1]
    /\ Len(evals) = 4
    /\ evals[4].res.val # evals[1].res.val

\* the same in the autonomous branch
C13_WitnessAutonomous ==
    /\ StepCompleted
    /\ i >= 3
    /\ Branch(naFun, naFunParams) = "autonomous"
    /\ x[i] # x[i - 1]
    /\ Len(evals) = 4
    /\ evals[4].res.val # evals[1].res.val

(* ------------------------------- C14 ----------------------------------- *)

\* out is what odeRK4 returns at step size hh when every column after the
\* first is one RK4 step from the column before it
IsRK4Trajectory(out, hh) ==
    /\ NRows(out) = Len(ICs)
    /\ NCols(out) = (t_end + OneTimeUnit) \div hh
    /\ Column(out, 0) = ICs
    /\ \A c \in 1..(NCols(out) - 1) :
          LET r == RK4(model, t0 + (c - 1) * hh, Column(out, c - 1), params,
                       hh, naFun, naFunParams)
          IN  /\ r.exc = "none"
              /\ Column(out, c) = r.val

\* odeRK4 has just returned to run_simulation
OdeRK4Returned == pc = "ret" /\ LastCall.res = "ok"

\* C14: odeRK4 returns a trajectory with len(ICs) rows and
\* floor(t_end/stepsize) columns, whatever t0 is, whose column 0 is ICs and
\* whose column i is the state after i RK4 steps.
C14_ReturnsRK4Trajectory ==
    OdeRK4Returned => IsRK4Trajectory(LastCall.out, LastCall.h)

\* the same for the calls in which one of the two stepping loops runs
C14_SteppingBranches ==
    (OdeRK4Returned /\ Branch(naFun, naFunParams) # "neither") =>
        IsRK4Trajectory(LastCall.out, LastCall.h)

\* in the remaining calls the shape and column 0 are as stated, and every
\* other column is zero
C14_NeitherBranch ==
    (OdeRK4Returned /\ Branch(naFun, naFunParams) = "neither") =>
        LET out == LastCall.out
        IN  /\ NRows(out) = Len(ICs)
            /\ NCols(out) = (t_end + OneTimeUnit) \div LastCall.h
            /\ Column(out, 0) = ICs
            /\ \A c \in 1..(NCols(out) - 1) :
                  Column(out, c) = [r \in DOMAIN ICs |-> 0]

(* ------------------------------- C15 ----------------------------------- *)

\* the signal is 1 at every time at which a run at step size hh evaluates it
SignalOneOnGrid(hh) ==
    /\ ~naFunParams.isNone
    /\ \A c \in 0..((t_end + OneTimeUnit) \div hh - 1) :
          fromIntv(t0 + c * hh, naFunParams.intv) = 1

\* the three-argument derivative function that returns the values the
\* five-argument one returns at signal 1, and the arguments of the call
\* that integrates it without a signal
AutonomousModel == CHOOSE m \in Models : m.nargs = 3
NonAutonomousModel == CHOOSE m \in Models : m.nargs = 5

AutonomousArgs(hh) ==
    [OdeArgs(hh) EXCEPT !.fun = AutonomousModel, !.naFun = None,
                        !.naFunParams = NoneParams]

NonAutonomousArgs(hh, nfp) ==
    [OdeArgs(hh) EXCEPT !.fun = NonAutonomousModel, !.naFun = "fromIntv",
                        !.naFunParams = nfp]

C15_WitnessAutonomous ==
    /\ OdeRK4Returned
    /\ naFun = None
    /\ naFunParams.isNone
    /\ t0 = 0
    /\ NCols(LastCall.out) >= 3
    /\ Column(LastCall.out, 2) # ICs
    /\ Len(evals) = 4
    /\ evals[4].nargs = 3

(* ------------------------------- C16 ----------------------------------- *)

\* every column of out has the component sum of the initial condition
MassConserved(out) ==
    \A c \in 0..(NCols(out) - 1) : SeqSum(Column(out, c)) = SeqSum(ICs)

\* every derivative the stepping loop obtained sums to zero
DerivativesSumToZero ==
    \A j \in DOMAIN evals :
        evals[j].res.exc = "none" => SeqSum(evals[j].res.val) = 0

\* C16: the derivative function's components summing to zero, every column
\* of every trajectory odeRK4 returns, and of what run_simulation returns
\* after any retry and down-sampling, has the component sum of ICs.
C16_TotalMassInvariant ==
    /\ DerivativesSumToZero
    /\ \A k \in 1..NCalls : Completed(k) => MassConserved(calls[k].out)
    /\ pc = "returned" => MassConserved(output)

\* the same for the calls in which one of the two stepping loops runs
C16_SteppingBranches ==
    Branch(naFun, naFunParams) # "neither" =>
        /\ \A k \in 1..NCalls : Completed(k) => MassConserved(calls[k].out)
        /\ pc = "returned" => MassConserved(output)

(* ------------------------------- C17 ----------------------------------- *)

\* a call of library function f has returned
Returned(f) == probe.fn = f /\ probe.done

\* some pair (intv[2j], intv[2j+1]), counted from 0, has tt between its ends
InSomePair(tt, intv) ==
    \E j \in 0..(Len(intv) \div 2 - 1) :
        intv[2 * j + 1] <= tt /\ tt <= intv[2 * j + 2]

\* C17: fromIntv(t, intv) returns 1 exactly if some pair of intv has
\* start <= t <= stop, both ends included, and 0 otherwise, for lists of
\* any number of pairs.
C17_FromIntvInclusive ==
    Returned("fromIntv") =>
        probe.res = IF InSomePair(probe.in.t, probe.in.intv) THEN 1 ELSE 0

\* the stop time of the second pair of a list: the result is 1
C17_Witness ==
    /\ Returned("fromIntv")
    /\ Len(probe.in.intv) >= 4
    /\ probe.in.t = probe.in.intv[4]
    /\ probe.in.t > probe.in.intv[3]
    /\ ~(probe.in.intv[1] <= probe.in.t /\ probe.in.t <= probe.in.intv[2])
    /\ probe.res = 1

\* a time between two pairs: the result is 0
C17_WitnessOutside ==
    /\ Returned("fromIntv")
    /\ Len(probe.in.intv) >= 4
    /\ probe.in.t > probe.in.intv[2]
    /\ probe.in.t < probe.in.intv[3]
    /\ probe.res = 0

(* ------------------------------- C20 ----------------------------------- *)

\* the model selector is one of the family that has the trajectory's rows
FamilyMatches(xx, md) ==
    \/ md < 4 /\ NRows(xx) = 8
    \/ md >= 4 /\ NRows(xx) = 9

\* the set of rows label sp selects under selector md
RowSet(sp, md) ==
    LET sel == FractionRows(sp, md) IN {sel.rows[j] : j \in DOMAIN sel.rows}

\* the value of fraction under the default filter, for the sum over labels
Fractions(xx, sp, md) == fraction(xx, sp, md, "default").val

\* C20: in each model family the five labels select pairwise disjoint sets
\* of rows whose union is all rows; fraction returns the sum of the rows of
\* its label over the column total; the five fractions of a column with
\* nonzero total sum to 1.
C20_FractionsPartitionRows ==
    (Returned("fraction") /\ FamilyMatches(probe.in.x, probe.in.model)
                          /\ probe.in.species \in SpeciesLabels) =>
        LET xx == probe.in.x
            md == probe.in.model
        IN  /\ \A l1, l2 \in SpeciesLabels :
                  l1 # l2 => RowSet(l1, md) \cap RowSet(l2, md) = {}
            /\ UNION {RowSet(l, md) : l \in SpeciesLabels} = 0..(NRows(xx) - 1)
            /\ probe.res.exc \in {"none", "RuntimeWarning"}
            /\ probe.res.exc = "none" =>
                  \A c \in 1..NCols(xx) :
                      /\ probe.res.val[c].den = ColumnTotal(xx, c)
                      /\ probe.res.val[c].num =
                            SeqSum([r \in 1..NRows(xx) |->
                                      IF r - 1 \in RowSet(probe.in.species, md)
                                      THEN xx[r][c] ELSE 0])
                      /\ ColumnTotal(xx, c) # 0 =>
                            LET sp5 == <<"0P", "1P", "2P", "3P", "4P">>
                            IN  SeqSum([j \in 1..5 |->
                                          Fractions(xx, sp5[j], md)[c].num])
                                    = probe.res.val[c].den

\* the 1P fraction of a nine-species trajectory whose rows all differ
C20_Witness ==
    /\ Returned("fraction")
    /\ NRows(probe.in.x) = 9
    /\ probe.in.model >= 4
    /\ probe.in.species = "1P"
    /\ probe.res.exc = "none"
    /\ \A c \in 1..2 : probe.in.x[3][c] > 0 /\ probe.res.val[c].den > 0
    /\ probe.res.val[1].num = 2 + 3 + 6

\* the 3P fraction of an eight-species trajectory
C20_WitnessBelow4 ==
    /\ Returned("fraction")
    /\ NRows(probe.in.x) = 8
    /\ probe.in.model < 4
    /\ probe.in.species = "3P"
    /\ probe.res.exc = "none"
    /\ probe.res.val[1].num = 4 + 7

(* ------------------------------- C18 ----------------------------------- *)

NonAutonomousVariants == {"cMyBPC_model_final", "cMyBPC_model_final_RSK2"}

\* the model function of a call, applied to other arguments
Variant(f, tt, ics, p, nf, nfp) ==
    IF f = "cMyBPC_model_final" THEN cMyBPC_model_final(tt, ics, p, nf, nfp)
    ELSE cMyBPC_model_final_RSK2(tt, ics, p, nf, nfp)

\* a call of a non-autonomous variant with a signal function has returned a
\* derivative
ReturnedDerivative ==
    /\ probe.fn \in NonAutonomousVariants
    /\ probe.done
    /\ probe.in.naFun # None
    /\ probe.res.exc = "none"

SignalValue == fromIntv(probe.in.t, probe.in.naFunParams.intv)

\* the parameters of the call with the concentration of enzyme e (counted
\* from 1 in "PKA, PKC, PP1, PP2A") set to c
WithEnzyme(e, c) == [probe.in.params EXCEPT !.enz[e] = c]

\* the derivative the same function returns for enzyme e at concentration c
DerivativeWithEnzyme(e, c) ==
    Variant(probe.fn, probe.in.t, probe.in.ICs, WithEnzyme(e, c),
            probe.in.naFun, probe.in.naFunParams).val

\* the derivative the same function returns at time tt
DerivativeAt(tt) ==
    Variant(probe.fn, tt, probe.in.ICs, probe.in.params,
            probe.in.naFun, probe.in.naFunParams).val

\* some substrate of PKA is present
PKASubstratePresent ==
    \E j \in {1, 2, 4, 6, 7, 8} : probe.in.ICs[j] > 0

\* what C18 says of one call
SignalGatesPKA ==
    /\ SignalValue = 0 => probe.res.val = DerivativeWithEnzyme(1, 0)
    /\ (probe.in.params.enz[1] > 0 /\ PKASubstratePresent) =>
          \A t1, t2 \in SignalTimes :
              fromIntv(t1, probe.in.naFunParams.intv)
                    # fromIntv(t2, probe.in.naFunParams.intv)
                  => DerivativeAt(t1) # DerivativeAt(t2)

\* C18: cMyBPC_model_final and cMyBPC_model_final_RSK2 both multiply the PKA
\* concentration by naFun(t, naFunParams): at signal 0 every PKA flux is 0,
\* the derivative being the one of PKA = 0, and the derivative returned
\* changes with the signal value.
C18_BothVariantsGatePKA ==
    ReturnedDerivative => SignalGatesPKA

\* cMyBPC_model_final_RSK2 does so
C18_RSK2GatesPKA ==
    (ReturnedDerivative /\ probe.fn = "cMyBPC_model_final_RSK2") => SignalGatesPKA

\* a call of cMyBPC_model_final_RSK2 at signal 0 with PKA and a substrate
C18_RSK2Reached ==
    /\ ReturnedDerivative
    /\ probe.fn = "cMyBPC_model_final_RSK2"
    /\ SignalValue = 0
    /\ probe.in.params.enz[1] > 0
    /\ probe.in.ICs[1] > 0

(* ------------------------------- C19 ----------------------------------- *)

RLess(a, b) == a.n * b.d < b.n * a.d

\* Atr is the only species present
OnlyAtr == \A j \in 1..9 : (probe.in.ICs[j] > 0) = (j = 3)

\* raising kinase e from 0 to its concentration in the call takes from
\* dAtr/dt what it adds to the derivative of species number product, and
\* changes no other component
KinaseConvertsAtr(e, product) ==
    LET with == probe.res.val
        without == DerivativeWithEnzyme(e, 0)
        delta == [j \in 1..9 |-> RSub(with[j], without[j])]
    IN  /\ RLess(delta[3], RInt(0))
        /\ delta[product] = RSub(RInt(0), delta[3])
        /\ \A j \in 1..9 \ {3, product} : delta[j] = RInt(0)

\* what C19 says of one call
AtrIsKinaseSubstrate ==
    /\ probe.in.params.enz[1] > 0 => KinaseConvertsAtr(1, 4)
    /\ probe.in.params.enz[2] > 0 => KinaseConvertsAtr(2, 7)

\* C19: in cMyBPC_model_final and in cMyBPC_model_final_RSK2 the derivative
\* contains a PKA flux from Atr to AB and a PKC flux from Atr to AD, each
\* subtracted from dAtr/dt and added to the derivative of its product.
C19_AtrIsKinaseSubstrate ==
    (ReturnedDerivative /\ SignalValue = 1 /\ OnlyAtr) => AtrIsKinaseSubstrate

\* cMyBPC_model_final_RSK2 has both fluxes
C19_RSK2AtrIsKinaseSubstrate ==
    (ReturnedDerivative /\ SignalValue = 1 /\ OnlyAtr
        /\ probe.fn = "cMyBPC_model_final_RSK2") => AtrIsKinaseSubstrate

\* a call of cMyBPC_model_final_RSK2 with Atr only and both kinases
C19_RSK2Reached ==
    /\ ReturnedDerivative
    /\ probe.fn = "cMyBPC_model_final_RSK2"
    /\ SignalValue = 1
    /\ OnlyAtr
    /\ probe.in.params.enz[1] > 0
    /\ probe.in.params.enz[2] > 0

(* ------------------------------- C21 ----------------------------------- *)

\* C21: fraction called with a model selector of the other family than the
\* trajectory's row count, or with an unknown species label, fails with an
\* error instead of returning fractions, whatever the label.
C21_MismatchFails ==
    (Returned("fraction")
        /\ \/ ~FamilyMatches(probe.in.x, probe.in.model)
           \/ probe.in.species \notin SpeciesLabels) =>
        probe.res.exc # "none"

\* an unknown label fails in every case
C21_UnknownLabelFails ==
    (Returned("fraction") /\ probe.in.species \notin SpeciesLabels) =>
        probe.res.exc = "UnboundLocalError"

\* of the mismatched selectors only the label 4P on eight rows fails by itself
C21_MismatchIndexError ==
    (Returned("fraction") /\ probe.in.species \in SpeciesLabels
        /\ ~FamilyMatches(probe.in.x, probe.in.model)) =>
        (probe.res.exc = "IndexError") =
            (probe.in.species = "4P" /\ NRows(probe.in.x) = 8)

(* ------------------------------- C22 ----------------------------------- *)

\* the last call of odeRK4 has just ended, by a return or by an exception
OdeRK4Ended ==
    /\ NCalls >= 1
    /\ \/ OdeRK4Returned
       \/ pc \in {"except_rw", "except_all", "raised"}

\* what the last call of odeRK4 gave is what odeRK4 gives for the arguments
\* of the run and the step size of the call, whatever calls came before
LastCallIsFunctionOfArgs ==
    LET r == OdeRK4(OdeArgs(LastCall.h))
    IN  IF LastCall.res = "ok" THEN r = Ok(LastCall.out)
        ELSE r.exc = LastCall.res

ModelReturned == probe.done /\ probe.fn \in ModelNames

FluxNames(net) == {net.fluxes[j].name : j \in DOMAIN net.fluxes}
Occurrences(nm, list) == Cardinality({j \in DOMAIN list : list[j] = nm})
\* the derivatives that add and that subtract a rate
Producing(net, nm) == {j \in DOMAIN net.odes : Occurrences(nm, net.odes[j].plus) > 0}
Consuming(net, nm) == {j \in DOMAIN net.odes : Occurrences(nm, net.odes[j].minus) > 0}
TimesProduced(net, nm) ==
    SeqSum([j \in DOMAIN net.odes |-> Occurrences(nm, net.odes[j].plus)])
TimesConsumed(net, nm) ==
    SeqSum([j \in DOMAIN net.odes |-> Occurrences(nm, net.odes[j].minus)])

EveryFluxOnceEachSign(net) ==
    /\ \A nm \in FluxNames(net) :
          /\ TimesProduced(net, nm) = 1
          /\ TimesConsumed(net, nm) = 1
          /\ Producing(net, nm) \cap Consuming(net, nm) = {}
    /\ \A j \in DOMAIN net.odes :
          \A m \in DOMAIN (net.odes[j].plus \o net.odes[j].minus) :
              (net.odes[j].plus \o net.odes[j].minus)[m] \in FluxNames(net)
    /\ Len(net.odes) = Len(net.species)

\* C23: in each of the seven model functions every reaction rate, the
\* isomerization, fast-dephosphorylation and RSK2 rates included, is added
\* in exactly one species derivative and subtracted in exactly one other,
\* and the returned derivative vector sums to zero.
C23_FluxesBalance ==
    ModelReturned =>
        /\ EveryFluxOnceEachSign(NetOf(probe.fn))
        /\ probe.res.exc = "none" => RSum(probe.res.val) = RInt(0)

\* a function with isomerization and fast dephosphorylation returned a
\* derivative that is not zero, Atr being present with PP1
C23_Witness ==
    /\ ModelReturned
    /\ probe.fn = "cMyBPC_model4"
    /\ probe.res.exc = "none"
    /\ probe.in.ICs[3] > 0
    /\ probe.in.params.enz[3] > 0
    /\ \E j \in DOMAIN probe.res.val : probe.res.val[j] # RInt(0)

\* the same for the function with the RSK2 rates
C23_WitnessRSK2 ==
    /\ ModelReturned
    /\ probe.fn = "cMyBPC_model_final_RSK2"
    /\ probe.res.exc = "none"
    /\ probe.in.ICs[1] > 0
    /\ probe.res.val[1] # RInt(0)

(* ------------------------------- C24 ----------------------------------- *)

\* the rates of the numbered scheme v1 .. v30 (v4_2 and v13_2 carry the
\* numbers 4 and 13) and the rates that an enzyme pool catalyses
EnzymePools == {"PKA", "PKC", "PP1", "PP2A"}
Numbered(net) ==
    {j \in DOMAIN net.fluxes :
        net.fluxes[j].form \in {"mm", "allo"} /\ net.fluxes[j].num \in 1..30}
PoolFluxes(net, e) ==
    {j \in DOMAIN net.fluxes :
        net.fluxes[j].form \in {"mm", "allo"} /\ net.fluxes[j].enz = e}

\* v_n takes k[n-1] and K[n-1], one enzyme pool and that pool's competition
\* term, and subtracts its own substrate over K[n-1]
RateAligned(f) ==
    /\ f.k = kRef(f.num - 1)
    /\ f.K = KRef(f.num - 1)
    /\ f.enz \in EnzymePools
    /\ f.kappa = f.enz
    /\ f.own = f.sub
    /\ f.ownK = KRef(f.num - 1)
    /\ f.add = f.sub

\* the summands S/K of a competition term, "(S1+S2)/K" being S1/K + S2/K
Summands(terms) ==
    UNION {{<<terms[j].subs[m], terms[j].K>> : m \in DOMAIN terms[j].subs} :
              j \in DOMAIN terms}
NSummands(terms) == SeqSum([j \in DOMAIN terms |-> Len(terms[j].subs)])

\* the competition term of a pool has one summand for each rate of the pool
\* and no other
KappaMatchesPool(net, e) ==
    /\ Summands(net.kappa[e]) =
          {<<net.fluxes[j].sub, net.fluxes[j].K>> : j \in PoolFluxes(net, e)}
    /\ NSummands(net.kappa[e]) = Cardinality(PoolFluxes(net, e))
    /\ \A j \in PoolFluxes(net, e) :
          /\ net.fluxes[j].kappa = e
          /\ net.fluxes[j].own = net.fluxes[j].sub
          /\ net.fluxes[j].ownK = net.fluxes[j].K

Aligned(net) ==
    /\ {net.fluxes[j].num : j \in Numbered(net)} = 1..30
    /\ \A j \in Numbered(net) : RateAligned(net.fluxes[j])
    /\ \A e \in EnzymePools : KappaMatchesPool(net, e)

\* a call with P0 the only species and PKA the only enzyme, in a function
\* without RSK2
OnlyP0AndPKA ==
    /\ ModelReturned
    /\ ~NetOf(probe.fn).rsk2
    /\ \A j \in DOMAIN probe.in.ICs : (probe.in.ICs[j] > 0) = (j = 1)
    /\ \A j \in DOMAIN probe.in.params.enz : (probe.in.params.enz[j] > 0) = (j = 1)
    /\ "naFun" \in DOMAIN probe.in => probe.in.naFun = None

\* with one substrate only the competition term cancels: v1 is the plain
\* Michaelis-Menten rate k[0]*PKA*P0/(K[0]+P0)
PlainRateV1 ==
    LET p == probe.in.params
    IN  RDiv(RInt(p.k[1] * p.enz[1] * probe.in.ICs[1]),
             RInt(p.K[1] + probe.in.ICs[1]))

\* C24: in each of the seven model functions v_n takes k[n-1] and K[n-1]
\* of the same index and one enzyme pool, the competition term of a pool
\* holds substrate/K[n-1] for exactly the rates of that pool, and the term
\* v_n subtracts in its denominator is its own substrate/K[n-1]; with one
\* substrate only the rate is therefore the plain Michaelis-Menten rate.
C24_RatesAligned ==
    /\ ModelReturned => Aligned(NetOf(probe.fn))
    /\ OnlyP0AndPKA =>
          /\ probe.res.exc = "none"
          /\ probe.res.val[1] = RSub(RInt(0), PlainRateV1)
          /\ probe.res.val[2] = PlainRateV1

\* a function with every pool at work returned, its Michaelis constants
\* differing from one reaction to the next
C24_Witness ==
    /\ ModelReturned
    /\ probe.fn = "cMyBPC_model4_full"
    /\ probe.res.exc = "none"
    /\ probe.in.params.K[1] # probe.in.params.K[2]
    /\ \A j \in DOMAIN probe.in.ICs : probe.in.ICs[j] > 0
    /\ \A j \in DOMAIN probe.in.params.enz : probe.in.params.enz[j] > 0

\* the call with one substrate was made with constants that differ
C24_WitnessPlainRate ==
    /\ OnlyP0AndPKA
    /\ probe.fn = "cMyBPC_model3"
    /\ probe.in.params.k[1] # probe.in.params.K[2]
    /\ probe.res.val[2] # RInt(0)

(* ------------------------------- C25 ----------------------------------- *)

\* pair number j (from 1) of a list of pairs
NPairs(intv) == Len(intv) \div 2
Start(intv, j) == intv[2 * j - 1]
Stop(intv, j) == intv[2 * j]

\* the pairs are in order and do not overlap
SortedDisjoint(intv) ==
    /\ Len(intv) % 2 = 0
    /\ \A j \in 1..NPairs(intv) : Start(intv, j) <= Stop(intv, j)
    /\ \A j \in 1..(NPairs(intv) - 1) : Stop(intv, j) <= Start(intv, j + 1)

\* the pair that ended last before or at t, no later pair having started
EndedLast(tt, intv, j) ==
    /\ j \in 1..NPairs(intv)
    /\ tt >= Stop(intv, j)
    /\ j < NPairs(intv) => tt < Start(intv, j + 1)

PulsesDecayingReturned ==
    Returned("pulses_decaying") /\ SortedDisjoint(probe.in.p[1])

\* C25: for a sorted list of disjoint intervals pulses_decaying(t, (intv, k))
\* is 0 before the first start, 1 where start <= t < stop for some interval,
\* and exp(k*(t-stop)) of the interval that ended last where t is at or
\* after a stop and before the next start; at t = stop this value is 1.
C25_PulsesDecaying ==
    PulsesDecayingReturned =>
        LET tt == probe.in.t
            intv == probe.in.p[1]
            k == probe.in.p[2]
        IN  /\ (NPairs(intv) = 0 \/ tt < Start(intv, 1)) => probe.res = Num(0)
            /\ \A j \in 1..NPairs(intv) :
                  /\ (Start(intv, j) <= tt /\ tt < Stop(intv, j)) =>
                        probe.res = Num(1)
                  /\ EndedLast(tt, intv, j) =>
                        /\ probe.res = Exp(k * (tt - Stop(intv, j)))
                        /\ tt = Stop(intv, j) => probe.res = Num(1)

\* a time after the stop of the second interval and before the third: the
\* value decays from the second stop, not from the first
C25_Witness ==
    /\ PulsesDecayingReturned
    /\ NPairs(probe.in.p[1]) >= 3
    /\ EndedLast(probe.in.t, probe.in.p[1], 2)
    /\ probe.in.t > Stop(probe.in.p[1], 2)
    /\ probe.in.p[2] # 0
    /\ probe.res.fn = "exp"

\* the stop of an interval itself: the value is 1
C25_WitnessAtStop ==
    /\ PulsesDecayingReturned
    /\ NPairs(probe.in.p[1]) >= 1
    /\ probe.in.t = Stop(probe.in.p[1], 1)
    /\ Start(probe.in.p[1], 1) < probe.in.t
    /\ EndedLast(probe.in.t, probe.in.p[1], 1)
    /\ probe.in.p[2] # 0
    /\ probe.res = Num(1)

(* ------------------------------- C26 ----------------------------------- *)

\* two calls of odeRK4 are made with the same derivative function, initial
\* conditions, parameters, t0, end time and signal arguments
SameButStepSize(a, b) == [a EXCEPT !.stepsize = 0] = [b EXCEPT !.stepsize = 0]

RetriesReuseArguments ==
    \A k \in 1..NCalls : SameButStepSize(calls[k].args, calls[1].args)

\* C26: every retry of a ladder is made with the derivative function,
\* initial conditions, parameters, t0, end time and signal arguments of the
\* nominal call; only the step size (and with it the stride) differs.
C26_RetriesReuseArguments == RetriesReuseArguments

\* the ladders other than the tQSSA cell of model_comparisons do so
C26_OtherLaddersReuseArguments ==
    ladder # "model4_full_tQSSA" => RetriesReuseArguments

\* in the tQSSA cell every retry names cMyBPC_model4_full_tQSSA, which the
\* nominal call did not integrate and models_cMyBPC does not define
C26_TQSSARetryFails ==
    (ladder = "model4_full_tQSSA" /\ NCalls >= 2) =>
        /\ LastCall.args.fun # calls[1].args.fun
        /\ LastCall.res = "AttributeError"

(* ------------------------------- C27 ----------------------------------- *)

\* a negative value in a column of the fine trajectory that out[:, ::k]
\* keeps, and in one that it drops
RetainedHasNeg(fine, k) ==
    \E c \in 0..(NCols(fine) - 1) :
        c % k = 0 /\ \E r \in DOMAIN fine : fine[r][c + 1] < 0
DiscardedHasNeg(fine, k) ==
    \E c \in 0..(NCols(fine) - 1) :
        c % k # 0 /\ \E r \in DOMAIN fine : fine[r][c + 1] < 0

\* the nominal call returned and the h=0.1 negative-value retry returned
Neg01RetryReturned ==
    /\ NCalls >= 2
    /\ calls[1].res = "ok"
    /\ calls[2].res = "ok"

\* C27: after the h=0.1 negative-value retry only the retained columns
\* (every 10th of the fine trajectory) are tested: if none of them holds a
\* negative value there is no h=0.01 call and 'succeeded!' is printed,
\* whatever the discarded columns hold; if one does, the h=0.01 tier runs.
C27_OnlyRetainedColumnsTested ==
    Neg01RetryReturned =>
        IF RetainedHasNeg(calls[2].out, 10)
        THEN pc \in {"returned", "raised"} => NCalls >= 3
        ELSE /\ NCalls = 2
             /\ pc \notin {"except_rw", "except_all", "raised"}
             /\ pc = "returned" =>
                   /\ notices[Len(notices)] = NoticeSucceeded
                   /\ StridedFrom(output, calls[2].out, 10)

\* run_simulation returned after 'succeeded!' although the fine trajectory
\* holds a negative value, in a discarded column
C27_Witness ==
    /\ Neg01RetryReturned
    /\ DiscardedHasNeg(calls[2].out, 10)
    /\ ~RetainedHasNeg(calls[2].out, 10)
    /\ pc = "returned"
    /\ NCalls = 2
    /\ notices[Len(notices)] = NoticeSucceeded

(* ------------------------------- C28 ----------------------------------- *)

\* C28: whenever run_simulation returns, by whichever tier and after
\* whichever down-sampling, column 0 of the returned trajectory is ICs.
C28_FirstColumnIsICs ==
    pc = "returned" =>
        /\ NCols(output) >= 1
        /\ Column(output, 0) = ICs

\* a return after the h=0.01 tier, down-sampled by 100, of a trajectory that
\* left the initial condition
C28_Witness ==
    /\ pc = "returned"
    /\ tier \in {"neg001", "rw001"}
    /\ StridedFrom(output, LastCall.out, 100)
    /\ NCols(output) >= 2
    /\ Column(output, 1) # ICs
    /\ Column(output, 0) = ICs

\* the same after the h=0.1 tier, down-sampled by 10
C28_WitnessStride10 ==
    /\ pc = "returned"
    /\ tier \in {"neg01", "rw01"}
    /\ StridedFrom(output, LastCall.out, 10)
    /\ NCols(output) >= 2
    /\ Column(output, 1) # ICs
    /\ Column(output, 0) = ICs

(* ------------------------------- C29 ----------------------------------- *)

\* a call of odeRK4 with naFun = None and naFunParams given
NeitherBranchCall == naFun = None /\ ~naFunParams.isNone

\* C29: in a run with naFun = None and naFunParams not None, odeRK4 never
\* evaluates fun and never advances its loop, no call ends in an exception,
\* and the trajectory it returns has ICs in column 0 and zeros in every
\* other column.
C29_NeitherBranchRuns ==
    NeitherBranchCall =>
        /\ evals = <<>>
        /\ exc = "none"
        /\ \A c \in DOMAIN calls : calls[c].res \in {"running", "ok"}
        /\ pc \in {"ode", "ret"} => i = 1
        /\ \A c \in DOMAIN calls :
              calls[c].res = "ok" =>
                  /\ NCols(calls[c].out) >= 1
                  /\ Column(calls[c].out, 0) = ICs
                  /\ \A d \in 1..(NCols(calls[c].out) - 1) :
                        \A r \in DOMAIN ICs : calls[c].out[r][d + 1] = 0

\* such a call returned a trajectory of several columns from a non-zero
\* initial condition
C29_Witness ==
    /\ NeitherBranchCall
    /\ OdeRK4Returned
    /\ NCols(LastCall.out) >= 3
    /\ \E r \in DOMAIN ICs : ICs[r] # 0
    /\ Column(LastCall.out, 2) = [r \in DOMAIN ICs |-> 0]
    /\ evals = <<>>

(* ------------------------------- C30 ----------------------------------- *)

\* a call of sig2array with a positive step has returned
Sig2ArrayReturned ==
    /\ probe.fn = "sig2array"
    /\ probe.done
    /\ probe.in.sz > 0

\* C30: for every list of (start, stop) pairs sig, horizon t >= 0 and step
\* sz > 0, sig2array(sig, t, sz) returns an array of floor(t/sz) entries
\* whose entry i is fromIntv(i*sz, sig).
C30_Sig2ArraySamplesFromIntv ==
    Sig2ArrayReturned =>
        /\ probe.res.exc = "none"
        /\ Len(probe.res.val) * probe.in.sz <= probe.in.t
        /\ probe.in.t < (Len(probe.res.val) + 1) * probe.in.sz
        /\ \A n \in 0..(Len(probe.res.val) - 1) :
              probe.res.val[n + 1] = fromIntv(n * probe.in.sz, probe.in.sig)

\* a profile of two pulses sampled with a step that does not divide the
\* horizon: entries inside the first pulse, between the pulses and inside
\* the second pulse
C30_Witness ==
    /\ Sig2ArrayReturned
    /\ probe.in.sig = <<1, 2, 4, 5>>
    /\ probe.in.sz = 2
    /\ probe.in.t = 7
    /\ probe.res = Ok(<<0, 1, 1>>)

\* a profile sampled at every time: the pulse of the pair listed first is
\* kept although a later pair does not contain the time
C30_WitnessFirstPairKept ==
    /\ Sig2ArrayReturned
    /\ probe.in.sig = <<1, 2, 4, 5>>
    /\ probe.in.sz = 1
    /\ Len(probe.res.val) >= 6
    /\ probe.res.val[2] = 1
    /\ probe.res.val[4] = 0
    /\ probe.res.val[6] = 1

====
